---- MODULE Spec2Model ----
(***************************************************************************)
(* The dialogue engine of the RupeeQ calling agent: the ConversationManager *)
(* of src/ai_agent/conversation.py, one session object driven by its host   *)
(* through start_call, get_next_message, process_user_input and end_call.   *)
(* Spec runs the methods one at a time; SpecDetect runs the objection       *)
(* detector on its own inputs; SpecHandlers runs the state handlers on      *)
(* theirs, and SpecLongRun on a digit run int() does not convert; SpecRace  *)
(* runs a turn and end_call at once, access by access; SpecHost puts the    *)
(* session behind the event handlers of src/app.py; SpecCalls runs those    *)
(* handlers with the host's database and registries, a user_message and    *)
(* an end_call at once; SpecListen runs the SpeechEngine of                *)
(* src/ai_agent/speech_engine.py with its listen threads.                  *)
(*                                                                          *)
(* Python strings are TLA+ strings; Len, \o and SubSeq are the only string  *)
(* primitives used, and every conversion (lower, strip, replace, the \d+    *)
(* search, int, str, str.format) is computed character by character.        *)
(* Optional values are sequences of length at most one: None is <<>> and a  *)
(* present value v is <<v>>.                                                 *)
(* The 'timestamp' field of a history entry (datetime.now().isoformat()) is *)
(* a reading of the wall clock that no operation reads back; the entries    *)
(* here carry the two fields the engine sets itself, 'state' and 'message'. *)
(***************************************************************************)
EXTENDS Integers, Sequences, FiniteSets, TLC

(* CallState: the fourteen dialogue states, by their enum values. *)
GREETING == "greeting"
IDENTITY_CONFIRMATION == "identity_confirmation"
SCRIPT_INTRODUCTION == "script_introduction"
RECORDING_NOTICE == "recording_notice"
EMPLOYMENT_STATUS == "employment_status"
SALARY_COLLECTION == "salary_collection"
BENEFITS_EXPLANATION == "benefits_explanation"
PERSONAL_DETAILS == "personal_details"
ELIGIBILITY_CHECK == "eligibility_check"
BUREAU_CONSENT == "bureau_consent"
DOCUMENT_REQUIREMENTS == "document_requirements"
OBJECTION_HANDLING == "objection_handling"
CALL_CLOSING == "call_closing"
ENDED == "ended"

CallState ==
  { GREETING,
    IDENTITY_CONFIRMATION,
    SCRIPT_INTRODUCTION,
    RECORDING_NOTICE,
    EMPLOYMENT_STATUS,
    SALARY_COLLECTION,
    BENEFITS_EXPLANATION,
    PERSONAL_DETAILS,
    ELIGIBILITY_CHECK,
    BUREAU_CONSENT,
    DOCUMENT_REQUIREMENTS,
    OBJECTION_HANDLING,
    CALL_CLOSING,
    ENDED }

(* _load_objection_responses: category -> canned response. *)
objection_responses ==
  [ no_need |-> "An Overdraft Facility is a great financial backup. There is no EMI, and you only pay interest on the amount used.",
    existing_loan |-> "You can balance transfer your loan for better interest rates.",
    interest_rate |-> "1.25% monthly, calculated on a reducing balance method.",
    need_time |-> "Sure, but this offer is currently available for your profile. Can we call you back in the evening?",
    cash_withdrawal |-> "Yes, you can transfer the Overdraft amount directly to your account.",
    no_emi |-> "There is no EMI in an Overdraft, only interest on the utilized amount.",
    recording_question |-> "This call is recorded for training and quality purposes to enhance our service.",
    credit_card |-> "Credit card cash withdrawals have extra charges, whereas Overdrafts don't.",
    reducing_balance |-> "Interest is applied on the remaining balance after each repayment.",
    processing_fee |-> "Banks charge a one-time processing fee starting from 1%.",
    inappropriate_language |-> "Sir/Madam, I am here to assist you professionally. Please maintain a respectful conversation.",
    unclear_voice |-> "Sir/Madam, I am unable to hear you properly. Could you please check your network or speak a bit louder?" ]

(* _load_script_messages: state -> ordered templates.  A template is the
   sequence of its literal pieces <<"lit", text>> and of its replacement
   fields <<"ph", name>>, in the order str.format meets them. *)
script_messages ==
  [ greeting |->
    << << <<"lit", "Greetings!! ">>,
           <<"ph", "customer_name">>,
           <<"lit", " Main ">>,
           <<"ph", "agent_name">>,
           <<"lit", " Baat kar raha hun on Behalf of Bajaj Finance Limited.">> >>,
      << <<"lit", "Kaise hain Aap Sir/Mam?">> >> >>,
    script_introduction |->
    << << <<"ph", "customer_name">>,
           <<"lit", " Ji ye call meine aap ko kiya hain ek Unique Financial Back up Plan ke liye jo ki Personal Loan Nahi hain Balki ek Flexi Overdraft Facility hain jo ki specially design Ki Gayi hain Salaried employees ke liye.">> >> >>,
    recording_notice |->
    << << <<"lit", "Sir/Mam..Aage badhne se pehle btana chahunga ki ye call training ya quality purpose k liye record ho rahi hai">> >> >>,
    employment_status |->
    << << <<"lit", "Sir Kya main Jaan Sakta Hun Aap Abhi Job Karte Hain Ya Apka apna Business Hain.">> >> >>,
    salary_collection |->
    << << <<"lit", "Thank You for the information Sir, Mein Batana Chahunga is Flexi Overdraft ke Antargat Aap Apni Net Salary Ka 10 Se 24 guna tak Financial Backup Le Sakte Hain jisme aap Ko Monthly EMI nahi deni hain Sirf Byaj ( Interest ) Dena hain wo bhi us amount par jo ki aap use karte hain Aur Ye Facility apke pass agle 8 saalo tak rahegi.">> >>,
      << <<"ph", "customer_name">>,
           <<"lit", " Ji agar aap Mind na kare to kya mein Jaan Sakta hun Aap ki Net Take home salary kitni Hogi After all deductions.">> >> >>,
    benefits_explanation |->
    << << <<"lit", "Dhanyawad Sir Jaisa apne bataya ki aap ki Monthly Net Salary ">>,
           <<"ph", "salary">>,
           <<"lit", " Rupaye hain to aap 10 -22 lacs tak ka financial backup le sakte hain bina kissi security ke aur iss par Interest Rate Matr 1.25% monthly reducing method me hain example ke liye agar aap 100000 Rupees withdraw karte aap ki assign limit mein se aur 30 days ke liye use karte hain to aap ko 30 din ke liye Sirf 1250 rupees interest dena hoga who bhi jitna amount aap use kar rahe hain uspar na ki poore loan amount par.">> >>,
      << <<"lit", "Aur Sir Ye 100000 Rupe aap Bajaj ko 30 din ke andar kabhi bhi lauta sakte hain. Kehne ka matlab yeh hain sir ki ap ko interest per day ke hisab se lagega aur utne din ke liye dena hoga jitney din ke liye aap funds ka istemal karenge">> >>,
      << <<"ph", "customer_name">>,
           <<"lit", " Ji Ye Sukar App ko Kaisa Laga ?">> >> >>,
    personal_details |->
    << << <<"lit", "Sir Itna hi nahi Ye amount aap Jarurat padne par kitni bhi baar Withdraw kar sakte hain aur Kissi Bhi Purpose Ya emergency ke liye use kar sakte hain jaise ghar mein koi renovation Karwana ho / Ya koi Shadi Ho / Yaa ap ko kahi Investment Karna chahte Ho / Ya Bacho Ki Higher Studies ke liye bhi ye paise use kar sakte hain aur jab aap ke pass extra funds available ho to kabhi bhi repay back karke part payment facility ka laabh utha sakte hain aur apna monthly interest save kar sakte hain with no extra charges.">> >>,
      << <<"ph", "customer_name">>,
           <<"lit", " Ji Age ki jankari dene se pehle Kya mein Jaan Sakta Hun App Private Sector Mein Job Karte Hain Ya Government Sector Mein">> >>,
      << <<"ph", "customer_name">>,
           <<"lit", " Ji Kya aap apni Company ka Poora Naam Bata Sakte Hain.">> >>,
      << <<"lit", "Sir/mam Iss Flexi Overdraft Facility Ki Eligibility Check Karne ke liye Kya Mein Jaan Sakta Hun Aapka Poora Naam As per Pan Card">> >>,
      << <<"lit", "Sir Aap Ka Date of Birth Kya Hoga">> >>,
      << <<"lit", "Sir aap Apna Poora Pan Card Number Bata Denge please">> >>,
      << <<"lit", "Sir Aap abhi/ Presently Kiss City Mein Reh rahe hain, Iska Area Pincode Kya Hoga">> >>,
      << <<"lit", "Aur Sir Apne Apni Company Ka Poora Name Mujhe Bataya Tha Yaha Apka Designation Kya Hoga">> >>,
      << <<"lit", "Aur Jaisa Apne mujhe Bataya Tha apki Net Salary ">>,
           <<"ph", "salary">>,
           <<"lit", " Monthly Hain.">> >> >>,
    eligibility_check |->
    << << <<"ph", "customer_name">>,
           <<"lit", " Ji Saari Jankari Dene Ke liye Dhanyawad Mein Sir abhi Bajaj Ke portal mein aap ki exact eligibility check karne ja raha hun jiske antargat mein aap ka credit Score aur aap ki monthly obligation check kaunga jiske liye aap ko ek link bhej raha hun Jo aap ko Bajaj ki Taraf se ayega aap uspar apna go ahead de dijiyega. Sir Link Bhej Kar mein aap ko again 10-15 min mein call back karta hun I hope Sir Ye number aap ka whats app par bhi available hoga.">> >> >>,
    bureau_consent |->
    << << <<"lit", "Batana chahunga bank one time bureau report check karta hai jo ki minorly impact karta hai but timely apne repayments karne se ye recover ho jata hai.">> >> >>,
    document_requirements |->
    << << <<"lit", "Required document list shared with the customer - (As per Bank )">> >>,
      << <<"lit", "1. 3 Months bank statement">> >>,
      << <<"lit", "2. Last 3 months salary slips">> >>,
      << <<"lit", "3. Aadhar/Pan card">> >>,
      << <<"lit", "4. 1 photograph">> >>,
      << <<"lit", "5. Address Proof">> >> >>,
    call_closing |->
    << << <<"lit", "Sir/Ma'am batana chahunga main aapki details aage bank me forward kar raha hu eligibility check ka liye and uske baad mai apko 15-20 minute me wapas call karunga agge ki processiosng k liye.">> >>,
      << <<"lit", "Thank You ! Sir/Ma'am">> >>,
      << <<"lit", "Is OD se related Kya mai aur kisi prakaar se aapki sahayta kar sakta/sakti hoon?">> >>,
      << <<"lit", "Apna kimti samay dene ke liye dhanyavaad aapka din shubh ho">> >> >> ]

(* _setup_state_transitions: state -> ordered candidate next states. *)
state_transitions ==
  [ greeting |-> << SCRIPT_INTRODUCTION >>,
    script_introduction |-> << RECORDING_NOTICE >>,
    recording_notice |-> << EMPLOYMENT_STATUS >>,
    employment_status |-> << SALARY_COLLECTION >>,
    salary_collection |-> << BENEFITS_EXPLANATION >>,
    benefits_explanation |-> << PERSONAL_DETAILS, OBJECTION_HANDLING >>,
    personal_details |-> << ELIGIBILITY_CHECK, OBJECTION_HANDLING >>,
    eligibility_check |-> << BUREAU_CONSENT, OBJECTION_HANDLING >>,
    bureau_consent |-> << DOCUMENT_REQUIREMENTS, OBJECTION_HANDLING >>,
    document_requirements |-> << CALL_CLOSING, OBJECTION_HANDLING >>,
    objection_handling |-> << BENEFITS_EXPLANATION, PERSONAL_DETAILS, ELIGIBILITY_CHECK, BUREAU_CONSENT, DOCUMENT_REQUIREMENTS, CALL_CLOSING >>,
    call_closing |-> << ENDED >> ]

(* objection_keywords of _detect_objection, in dict (insertion) order: the
   loop "for objection_type, keywords in objection_keywords.items()" walks
   the categories in this order and each keyword list in its own order. *)
objection_keywords ==
  << <<"no_need", << "don't need", "not interested", "no need", "not required", "not necessary" >> >>,
     <<"existing_loan", << "already have", "existing loan", "ongoing loan", "current loan" >> >>,
     <<"interest_rate", << "rate of interest", "interest rate", "what is the rate" >> >>,
     <<"need_time", << "think", "time", "discuss", "family", "later" >> >>,
     <<"cash_withdrawal", << "withdraw cash", "cash withdrawal", "cash" >> >>,
     <<"no_emi", << "emi", "monthly payment", "installment" >> >>,
     <<"recording_question", << "recording", "recorded", "why recording" >> >>,
     <<"credit_card", << "credit card", "already have card" >> >>,
     <<"reducing_balance", << "reducing balance", "how interest calculated" >> >>,
     <<"processing_fee", << "processing fee", "charges", "fees" >> >>,
     <<"inappropriate_language", << "fuck", "shit", "damn", "bloody" >> >>,
     <<"unclear_voice", << "can't hear", "unclear", "speak louder", "network issue" >> >> >>
(***************************************************************************)
(* Python values and string primitives.                                    *)
(***************************************************************************)
None == <<>>

Some(v) == <<v>>

(* The truth value of an optional string in "if x:": None and '' are false. *)
truthy(x) == x # None /\ x[1] # ""

Char(s, i) == SubSeq(s, i, i)

Rest(s) == SubSeq(s, 2, Len(s))

UpperCaseLetters == "ABCDEFGHIJKLMNOPQRSTUVWXYZ"

LowerCaseLetters == "abcdefghijklmnopqrstuvwxyz"

DecimalDigits == "0123456789"

(* str.lower(), one character. *)
lower_char(c) ==
  IF \E i \in 1..Len(UpperCaseLetters) : Char(UpperCaseLetters, i) = c
  THEN Char(LowerCaseLetters,
            CHOOSE i \in 1..Len(UpperCaseLetters) : Char(UpperCaseLetters, i) = c)
  ELSE c

RECURSIVE lower(_)
(* str.lower(): every character lowered, the two halves of s in turn. *)
lower(s) ==
  IF Len(s) = 0 THEN ""
  ELSE IF Len(s) = 1 THEN lower_char(s)
  ELSE LET half == Len(s) \div 2
       IN  lower(SubSeq(s, 1, half)) \o lower(SubSeq(s, half + 1, Len(s)))

(* The whitespace str.strip() removes; the inputs here hold no other kind. *)
Whitespace == {" "}

RECURSIVE lstrip(_)
lstrip(s) ==
  IF s # "" /\ Char(s, 1) \in Whitespace THEN lstrip(Rest(s)) ELSE s

RECURSIVE rstrip(_)
rstrip(s) ==
  IF s # "" /\ Char(s, Len(s)) \in Whitespace
  THEN rstrip(SubSeq(s, 1, Len(s) - 1))
  ELSE s

(* str.strip() *)
strip(s) == rstrip(lstrip(s))

(* "keyword in text": keyword occurs in text as a substring. *)
str_in(keyword, text) ==
  \E i \in 1..(Len(text) - Len(keyword) + 1) :
    SubSeq(text, i, i + Len(keyword) - 1) = keyword

(* Mutant: only the first occurrence is taken out, as replace(c, '', 1). *)
str_remove_first(s, c) ==
  IF \E i \in 1..Len(s) : Char(s, i) = c
  THEN LET first == CHOOSE i \in 1..Len(s) :
                      /\ Char(s, i) = c
                      /\ \A j \in 1..(i - 1) : Char(s, j) # c
       IN  SubSeq(s, 1, first - 1) \o SubSeq(s, first + 1, Len(s))
  ELSE s

RECURSIVE str_remove(_, _)
(* s.replace(c, '') for a one-character c. *)
str_remove(s, c) ==
  IF Len(s) = 0 THEN ""
  ELSE IF Len(s) = 1 THEN (IF s = c THEN "" ELSE s)
  ELSE LET half == Len(s) \div 2
       IN  str_remove(SubSeq(s, 1, half), c) \o str_remove(SubSeq(s, half + 1, Len(s)), c)

IsDigit(c) == \E d \in 1..Len(DecimalDigits) : Char(DecimalDigits, d) = c

DigitValue(c) == (CHOOSE d \in 1..Len(DecimalDigits) : Char(DecimalDigits, d) = c) - 1

(* The longest prefix of s made of digits: what a greedy \d+ matches at the
   start of s. *)
digit_run(s) ==
  LET n == CHOOSE k \in 0..Len(s) :
             /\ k = Len(s) \/ ~IsDigit(Char(s, k + 1))
             /\ \A j \in 1..k : IsDigit(Char(s, j))
  IN  SubSeq(s, 1, n)

(* re.search(r'(\d+)', s): group(1) of the leftmost match, or None. *)
re_search_digits(s) ==
  IF \E i \in 1..Len(s) : IsDigit(Char(s, i))
  THEN LET first == CHOOSE i \in 1..Len(s) :
                      /\ IsDigit(Char(s, i))
                      /\ \A j \in 1..(i - 1) : ~IsDigit(Char(s, j))
       IN  Some(digit_run(SubSeq(s, first, Len(s))))
  ELSE None

(* sys.get_int_max_str_digits(): the longest digit string int() converts;
   CPython 3.11 raises ValueError for a longer one. *)
int_max_str_digits == 4300

(* Whether int(s) raises ValueError for the string of decimal digits s. *)
int_raises(s) == Len(s) > int_max_str_digits

RECURSIVE to_int(_)
(* int(s) for a non-empty string of decimal digits. *)
to_int(s) ==
  IF s = "" THEN 0
  ELSE to_int(SubSeq(s, 1, Len(s) - 1)) * 10 + DigitValue(Char(s, Len(s)))

RECURSIVE to_str(_)
(* str(n) for an int n >= 0, as '{salary}' formats an int. *)
to_str(n) ==
  IF n < 10 THEN Char(DecimalDigits, n + 1)
  ELSE to_str(n \div 10) \o Char(DecimalDigits, (n % 10) + 1)

RECURSIVE format(_, _)
(* template.format with keyword arguments kwargs: <<text>>, or None for the KeyError raised at a
   replacement field that kwargs does not name. *)
format(template, kwargs) ==
  IF template = <<>> THEN Some("")
  ELSE LET part == Head(template)
           piece == IF part[1] = "lit" THEN Some(part[2])
                    ELSE IF part[2] \in DOMAIN kwargs THEN Some(kwargs[part[2]])
                    ELSE None
           rest == format(Tail(template), kwargs)
       IN  IF piece = None \/ rest = None THEN None
           ELSE Some(piece[1] \o rest[1])

RECURSIVE raw_template(_)
(* The template string itself, replacement fields unformatted. *)
raw_template(template) ==
  IF template = <<>> THEN ""
  ELSE LET part == Head(template)
       IN  (IF part[1] = "lit" THEN part[2] ELSE "{" \o part[2] \o "}")
             \o raw_template(Tail(template))

(* dict.get(key, default) *)
dict_get(d, key, default) == IF key \in DOMAIN d THEN d[key] ELSE default

(* d[key] = value *)
dict_set(d, key, value) ==
  [k \in DOMAIN d \cup {key} |-> IF k = key THEN value ELSE d[k]]

(***************************************************************************)
(* The ConversationManager.  A session s is the record of the object's      *)
(* mutable fields.  A method is an operator from the session (and its       *)
(* arguments) to a frame: the session after the call (s), the value         *)
(* returned (r) and the values the call assigned to current_state, in       *)
(* order (w).  For a call that ends with an exception E, r is               *)
(* [raised |-> E] and s is the session as the exception left it.            *)
(***************************************************************************)
Frame(s, r, w) == [s |-> s, r |-> r, w |-> w]

EmptyDict == [k \in {} |-> ""]

(* ConversationManager.__init__ *)
NewConversationManager ==
  [ current_state        |-> GREETING,
    customer_name        |-> "",
    agent_name           |-> "",
    language             |-> "en-IN",
    customer_data        |-> EmptyDict,
    conversation_history |-> <<>> ]

(* Mutant: a session that is started again keeps its slots. *)
start_call_keeps_slots(s, customer_name, agent_name, language) ==
  Frame([ s EXCEPT !.customer_name = customer_name,
                   !.agent_name = agent_name,
                   !.language = language,
                   !.current_state = GREETING,
                   !.conversation_history = <<>> ],
        None, << GREETING >>)

(* ConversationManager.start_call *)
start_call(s, customer_name, agent_name, language) ==
  Frame([ s EXCEPT !.customer_name = customer_name,
                   !.agent_name = agent_name,
                   !.language = language,
                   !.current_state = GREETING,
                   !.customer_data = EmptyDict,
                   !.conversation_history = <<>> ],
        None, << GREETING >>)

(* Mutant: salary is handed to str.format only when the slot is set. *)
format_kwargs_without_default(s) ==
  [ k \in {"customer_name", "agent_name", "company", "designation"}
           \cup (DOMAIN s.customer_data \cap {"salary"}) |->
      CASE k = "customer_name" -> s.customer_name
        [] k = "agent_name"    -> s.agent_name
        [] k = "salary"        -> to_str(s.customer_data["salary"])
        [] k = "company"       -> dict_get(s.customer_data, "company", "")
        [] k = "designation"   -> dict_get(s.customer_data, "designation", "") ]

(* The keyword arguments get_next_message hands to str.format. *)
format_kwargs(s) ==
  [ customer_name |-> s.customer_name,
    agent_name    |-> s.agent_name,
    salary        |-> IF "salary" \in DOMAIN s.customer_data
                      THEN to_str(s.customer_data["salary"])
                      ELSE "100000",
    company       |-> dict_get(s.customer_data, "company", ""),
    designation   |-> dict_get(s.customer_data, "designation", "") ]

(* Mutant: the template is returned as it is written, its replacement
   fields unformatted. *)
get_next_message_raw(s) ==
  IF s.current_state \notin DOMAIN script_messages THEN Frame(s, None, <<>>)
  ELSE LET messages == script_messages[s.current_state]
       IN  IF messages # <<>>
           THEN LET formatted_message == raw_template(messages[1])
                IN  Frame([ s EXCEPT !.conversation_history =
                              Append(@, [ state   |-> s.current_state,
                                          message |-> formatted_message ]) ],
                          Some(formatted_message), <<>>)
           ELSE Frame(s, None, <<>>)

(* Mutant: a state without messages leaves an empty entry in the history. *)
get_next_message_logs_absent(s) ==
  IF s.current_state \notin DOMAIN script_messages
  THEN Frame([ s EXCEPT !.conversation_history =
                 Append(@, [state |-> s.current_state, message |-> ""]) ],
             None, <<>>)
  ELSE LET message == script_messages[s.current_state][1]
           formatted == format(message, format_kwargs(s))
           formatted_message ==
             IF formatted = None THEN raw_template(message) ELSE formatted[1]
       IN  Frame([ s EXCEPT !.conversation_history =
                     Append(@, [ state   |-> s.current_state,
                                 message |-> formatted_message ]) ],
                 Some(formatted_message), <<>>)

(* Mutant: each call in a state gives the next template of the state's
   list, the last one from then on. *)
get_next_message_next_template(s) ==
  IF s.current_state \notin DOMAIN script_messages THEN Frame(s, None, <<>>)
  ELSE LET messages == script_messages[s.current_state]
           given == Cardinality({ i \in 1..Len(s.conversation_history) :
                                    s.conversation_history[i].state = s.current_state })
           message == messages[IF given < Len(messages) THEN given + 1 ELSE Len(messages)]
           formatted == format(message, format_kwargs(s))
           formatted_message ==
             IF formatted = None THEN raw_template(message) ELSE formatted[1]
       IN  Frame([ s EXCEPT !.conversation_history =
                     Append(@, [ state   |-> s.current_state,
                                 message |-> formatted_message ]) ],
                 Some(formatted_message), <<>>)

(* ConversationManager.get_next_message *)
get_next_message(s) ==
  IF s.current_state \notin DOMAIN script_messages THEN Frame(s, None, <<>>)
  ELSE LET messages == script_messages[s.current_state]
       IN  IF messages # <<>>
           THEN LET message == messages[1]
                    formatted == format(message, format_kwargs(s))
                    formatted_message ==
                      IF formatted = None THEN raw_template(message)
                      ELSE formatted[1]
                IN  Frame([ s EXCEPT !.conversation_history =
                              Append(@, [ state   |-> s.current_state,
                                          message |-> formatted_message ]) ],
                          Some(formatted_message), <<>>)
           ELSE Frame(s, None, <<>>)

(* Mutant: the transition takes the second candidate where the table's list
   has one. *)
_transition_to_second_candidate(s) ==
  IF s.current_state \in DOMAIN state_transitions
  THEN LET valid_states == state_transitions[s.current_state]
           chosen == IF Len(valid_states) >= 2 THEN 2 ELSE 1
       IN  IF valid_states # <<>>
           THEN Frame([s EXCEPT !.current_state = valid_states[chosen]], None,
                      << valid_states[chosen] >>)
           ELSE Frame(s, None, <<>>)
  ELSE Frame(s, None, <<>>)

(* Mutant: the transition takes the last candidate of the table's list. *)
_transition_to_last_candidate(s) ==
  IF s.current_state \in DOMAIN state_transitions
  THEN LET valid_states == state_transitions[s.current_state]
       IN  IF valid_states # <<>>
           THEN Frame([s EXCEPT !.current_state = valid_states[Len(valid_states)]],
                      None, << valid_states[Len(valid_states)] >>)
           ELSE Frame(s, None, <<>>)
  ELSE Frame(s, None, <<>>)

(* Mutant: from a state without transitions the script starts over. *)
_transition_to_next_state_starts_over(s) ==
  IF s.current_state \in DOMAIN state_transitions
  THEN LET valid_states == state_transitions[s.current_state]
       IN  IF valid_states # <<>>
           THEN Frame([s EXCEPT !.current_state = valid_states[1]], None,
                      << valid_states[1] >>)
           ELSE Frame(s, None, <<>>)
  ELSE Frame([s EXCEPT !.current_state = GREETING], None, << GREETING >>)

(* ConversationManager._transition_to_next_state *)
_transition_to_next_state(s) ==
  IF s.current_state \in DOMAIN state_transitions
  THEN LET valid_states == state_transitions[s.current_state]
       IN  IF valid_states # <<>>
           THEN Frame([s EXCEPT !.current_state = valid_states[1]], None,
                      << valid_states[1] >>)
           ELSE Frame(s, None, <<>>)
  ELSE Frame(s, None, <<>>)

(* Mutant: only the first keyword of the list is tried. *)
any_keyword_in_first_only(keywords, user_input) ==
  keywords # <<>> /\ str_in(keywords[1], user_input)

(* any(keyword in user_input for keyword in keywords) *)
any_keyword_in(keywords, user_input) ==
  \E j \in 1..Len(keywords) : str_in(keywords[j], user_input)

RECURSIVE detect_back_from(_, _)
detect_back_from(i, user_input) ==
  IF i < 1 THEN None
  ELSE IF \E j \in 1..Len(objection_keywords[i][2]) :
            str_in(objection_keywords[i][2][j], user_input)
       THEN Some(objection_keywords[i][1])
       ELSE detect_back_from(i - 1, user_input)

(* Mutant: the categories are walked from the last one to the first. *)
_detect_objection_backwards(user_input) ==
  detect_back_from(Len(objection_keywords), user_input)

RECURSIVE detect_from(_, _)
(* The loop of _detect_objection from the i-th category on. *)
detect_from(i, user_input) ==
  IF i > Len(objection_keywords) THEN None
  ELSE IF any_keyword_in(objection_keywords[i][2], user_input)
       THEN Some(objection_keywords[i][1])
       ELSE detect_from(i + 1, user_input)

(* ConversationManager._detect_objection *)
_detect_objection(user_input) == detect_from(1, user_input)

(* Mutant: the canned response is returned and the state is left alone. *)
_handle_objection_no_jump(s, objection_type) ==
  IF objection_type \in DOMAIN objection_responses
  THEN Frame(s, objection_responses[objection_type], <<>>)
  ELSE Frame(s, "I understand your concern. Let me explain how this can benefit you.",
             <<>>)

(* Mutant: a customer who has no need of the product ends the call. *)
_handle_objection_ends_call(s, objection_type) ==
  IF objection_type \in DOMAIN objection_responses
  THEN LET next == IF objection_type = "no_need" THEN ENDED ELSE OBJECTION_HANDLING
       IN  Frame([s EXCEPT !.current_state = next],
                 objection_responses[objection_type], << next >>)
  ELSE Frame(s, "I understand your concern. Let me explain how this can benefit you.",
             <<>>)

(* ConversationManager._handle_objection *)
_handle_objection(s, objection_type) ==
  IF objection_type \in DOMAIN objection_responses
  THEN Frame([s EXCEPT !.current_state = OBJECTION_HANDLING],
             objection_responses[objection_type], << OBJECTION_HANDLING >>)
  ELSE Frame(s, "I understand your concern. Let me explain how this can benefit you.",
             <<>>)

(* The statement pair the handlers share:
     self._transition_to_next_state()
     return {'message': self.get_next_message(), 'state': self.current_state.value} *)
transition_and_prompt(s) ==
  LET t == _transition_to_next_state(s)
      g == get_next_message(t.s)
  IN  Frame(g.s, [message |-> g.r, state |-> g.s.current_state], t.w \o g.w)

(* ConversationManager._get_default_response *)
_get_default_response(s) ==
  LET g == get_next_message(s)
  IN  IF truthy(g.r)
      THEN Frame(g.s, [message |-> g.r, state |-> g.s.current_state], g.w)
      ELSE Frame(g.s,
                 [ message |-> Some("Thank you for your response. Let me continue with the process."),
                   state   |-> "continuation" ],
                 g.w)

(* The words _process_employment_status looks for. *)
employment_words == << "job", "employed", "salary", "employee" >>

(* The words _process_benefits_response looks for. *)
positive_words == << "good", "great", "nice", "interested", "yes" >>

(* Mutant: the employment handler keeps the answer it accepted in a slot. *)
_process_employment_status_keeps_answer(s, user_input) ==
  IF any_keyword_in(employment_words, user_input)
  THEN transition_and_prompt(
         [s EXCEPT !.customer_data = dict_set(@, "employment", user_input)])
  ELSE Frame(s,
             [ message |-> Some("I understand. For this overdraft facility, we primarily work with salaried employees. Do you have any other questions?"),
               state   |-> "clarification" ],
             <<>>)

(* ConversationManager._process_employment_status *)
_process_employment_status(s, user_input) ==
  IF any_keyword_in(employment_words, user_input)
  THEN transition_and_prompt(s)
  ELSE Frame(s,
             [ message |-> Some("I understand. For this overdraft facility, we primarily work with salaried employees. Do you have any other questions?"),
               state   |-> "clarification" ],
             <<>>)

(* Mutant: the salary that was found is not stored. *)
_process_salary_collection_stores_nothing(s, user_input) ==
  LET salary_match == re_search_digits(str_remove(user_input, ","))
  IN  IF salary_match # None
      THEN IF int_raises(salary_match[1])
           THEN Frame(s, [raised |-> "ValueError"], <<>>)
           ELSE transition_and_prompt(s)
      ELSE Frame(s,
                 [ message |-> Some("Could you please tell me your net take-home salary amount? For example, if it's 50,000 rupees, please say 'fifty thousand'."),
                   state   |-> "salary_clarification" ],
                 <<>>)

(* Mutant: a reply without digits is let through, the salary left unset. *)
_process_salary_collection_lets_through(s, user_input) ==
  LET salary_match == re_search_digits(str_remove(user_input, ","))
  IN  IF salary_match # None
      THEN IF int_raises(salary_match[1])
           THEN Frame(s, [raised |-> "ValueError"], <<>>)
           ELSE LET salary == to_int(salary_match[1])
                IN  transition_and_prompt(
                      [s EXCEPT !.customer_data = dict_set(@, "salary", salary)])
      ELSE transition_and_prompt(s)

(* ConversationManager._process_salary_collection.  The ValueError of int()
   is not caught here or in process_user_input. *)
_process_salary_collection(s, user_input) ==
  LET salary_match == re_search_digits(str_remove(user_input, ","))
  IN  IF salary_match # None
      THEN IF int_raises(salary_match[1])
           THEN Frame(s, [raised |-> "ValueError"], <<>>)
           ELSE LET salary == to_int(salary_match[1])
                IN  transition_and_prompt(
                      [s EXCEPT !.customer_data = dict_set(@, "salary", salary)])
      ELSE Frame(s,
                 [ message |-> Some("Could you please tell me your net take-home salary amount? For example, if it's 50,000 rupees, please say 'fifty thousand'."),
                   state   |-> "salary_clarification" ],
                 <<>>)

(* Mutant: the personal-details handler answers without the transition. *)
_process_personal_details_no_transition(s, user_input) ==
  _get_default_response(s)

(* Mutant: the reply is kept as the customer's company. *)
_process_personal_details_keeps_reply(s, user_input) ==
  IF s.current_state = PERSONAL_DETAILS
  THEN transition_and_prompt(
         [s EXCEPT !.customer_data = dict_set(@, "company", user_input)])
  ELSE _get_default_response(s)

(* ConversationManager._process_personal_details *)
_process_personal_details(s, user_input) ==
  IF s.current_state = PERSONAL_DETAILS
  THEN transition_and_prompt(s)
  ELSE _get_default_response(s)

(* ConversationManager._process_benefits_response *)
_process_benefits_response(s, user_input) ==
  IF any_keyword_in(positive_words, user_input)
  THEN transition_and_prompt(s)
  ELSE Frame(s,
             [ message |-> Some("Let me explain more about how this can help you. You can use this facility for any emergency or investment purpose without any EMI burden."),
               state   |-> "benefits_clarification" ],
             <<>>)

(* Mutant: the default branch answers for the current state, without the
   transition. *)
dispatch_no_default_transition(s, user_input, user_input_lower) ==
  IF s.current_state \in {GREETING, SCRIPT_INTRODUCTION, RECORDING_NOTICE}
  THEN transition_and_prompt(s)
  ELSE IF s.current_state = EMPLOYMENT_STATUS
  THEN _process_employment_status(s, user_input_lower)
  ELSE IF s.current_state = SALARY_COLLECTION
  THEN _process_salary_collection(s, user_input)
  ELSE IF s.current_state = PERSONAL_DETAILS
  THEN _process_personal_details(s, user_input)
  ELSE IF s.current_state = BENEFITS_EXPLANATION
  THEN _process_benefits_response(s, user_input_lower)
  ELSE _get_default_response(s)

(* Mutant: an empty utterance is answered for the current state, without a
   transition. *)
dispatch_holds_on_empty(s, user_input, user_input_lower) ==
  IF user_input = ""
  THEN _get_default_response(s)
  ELSE IF s.current_state \in {GREETING, SCRIPT_INTRODUCTION, RECORDING_NOTICE}
  THEN transition_and_prompt(s)
  ELSE IF s.current_state = EMPLOYMENT_STATUS
  THEN _process_employment_status(s, user_input_lower)
  ELSE IF s.current_state = SALARY_COLLECTION
  THEN _process_salary_collection(s, user_input)
  ELSE IF s.current_state = PERSONAL_DETAILS
  THEN _process_personal_details(s, user_input)
  ELSE IF s.current_state = BENEFITS_EXPLANATION
  THEN _process_benefits_response(s, user_input_lower)
  ELSE LET t == _transition_to_next_state(s)
           g == get_next_message(t.s)
       IN  IF truthy(g.r)
           THEN Frame(g.s, [message |-> g.r, state |-> g.s.current_state],
                      t.w \o g.w)
           ELSE LET d == _get_default_response(g.s)
                IN  Frame(d.s, d.r, t.w \o g.w \o d.w)

(* Mutant: the employment handler is handed the utterance as it was said,
   not lowered. *)
dispatch_employment_raw(s, user_input, user_input_lower) ==
  IF s.current_state \in {GREETING, SCRIPT_INTRODUCTION, RECORDING_NOTICE}
  THEN transition_and_prompt(s)
  ELSE IF s.current_state = EMPLOYMENT_STATUS
  THEN _process_employment_status(s, user_input)
  ELSE IF s.current_state = SALARY_COLLECTION
  THEN _process_salary_collection(s, user_input)
  ELSE IF s.current_state = PERSONAL_DETAILS
  THEN _process_personal_details(s, user_input)
  ELSE IF s.current_state = BENEFITS_EXPLANATION
  THEN _process_benefits_response(s, user_input_lower)
  ELSE LET t == _transition_to_next_state(s)
           g == get_next_message(t.s)
       IN  IF truthy(g.r)
           THEN Frame(g.s, [message |-> g.r, state |-> g.s.current_state],
                      t.w \o g.w)
           ELSE LET d == _get_default_response(g.s)
                IN  Frame(d.s, d.r, t.w \o g.w \o d.w)

(* The state dispatch of process_user_input, reached when no objection was
   detected: "Process based on current state". *)
dispatch(s, user_input, user_input_lower) ==
  IF s.current_state \in {GREETING, SCRIPT_INTRODUCTION, RECORDING_NOTICE}
  THEN transition_and_prompt(s)
  ELSE IF s.current_state = EMPLOYMENT_STATUS
  THEN _process_employment_status(s, user_input_lower)
  ELSE IF s.current_state = SALARY_COLLECTION
  THEN _process_salary_collection(s, user_input)
  ELSE IF s.current_state = PERSONAL_DETAILS
  THEN _process_personal_details(s, user_input)
  ELSE IF s.current_state = BENEFITS_EXPLANATION
  THEN _process_benefits_response(s, user_input_lower)
  ELSE LET t == _transition_to_next_state(s)
           g == get_next_message(t.s)
       IN  IF truthy(g.r)
           THEN Frame(g.s, [message |-> g.r, state |-> g.s.current_state],
                      t.w \o g.w)
           ELSE LET d == _get_default_response(g.s)
                IN  Frame(d.s, d.r, t.w \o g.w \o d.w)

(* A reply that passes every gate of the script: it has an employment
   keyword ("salary"), a digit run and a positive keyword ("yes"), and no
   objection trigger. *)
ScriptedReply == "yes, my salary is 55,000"

(* The other utterances a customer sends: empty, small talk, objections
   alone, in upper case, with digits, with a positive keyword, and two
   categories at once. *)
OtherReplies ==
  { "",
    "hello",
    "I work in a job",
    "I don't need this",
    "50,000 but not interested",
    "DAMN",
    "damn, no need" }

Utterances == {ScriptedReply} \cup OtherReplies

(* The utterances the detector is exercised on by itself:
   every trigger phrase alone; the first trigger of every category followed
   by the first trigger of every other category; words that only hold a
   trigger inside them; upper case and padding; no trigger at all. *)
DetectorInputs ==
  UNION { { objection_keywords[i][2][j] : j \in 1..Len(objection_keywords[i][2]) } :
          i \in 1..Len(objection_keywords) }
  \cup { objection_keywords[i][2][1] \o " " \o objection_keywords[j][2][1] :
          i \in 1..Len(objection_keywords), j \in 1..Len(objection_keywords) }
  \cup { "sometimes", "premium", "  NOT Required ", "Bloody Unclear",
          "", " ", "ok", "interest", "my salary is 55,000" }

RECURSIVE Repeated(_, _)
(* s * n *)
Repeated(s, n) ==
  IF n = 0 THEN ""
  ELSE IF n % 2 = 1 THEN s \o Repeated(s, n - 1)
  ELSE LET half == Repeated(s, n \div 2) IN half \o half

(* A digit run one digit longer than int() converts. *)
LongDigitRun == Repeated("9", int_max_str_digits + 1)

(* The utterances the state handlers are exercised on: an employment
   keyword in upper case and inside a word, none; digits with commas, two
   runs the first with leading zeros; a positive keyword in upper case, and
   inside the "not interested" objection; none of these. *)
HandlerInputs ==
  { "I have a JOB", "Self Employed", "business", "hello",
    "4,50,000", "rs.007 or 15,000",
    "Great", "not interested" }

(* The utterances sent around the digit run int() does not convert. *)
LongRunInputs == { ScriptedReply, "hello", LongDigitRun }

Inputs == Utterances \cup DetectorInputs \cup HandlerInputs \cup LongRunInputs

(* The function f as an explicit table, each value computed once. *)
Tabulated(f) == f @@ EmptyDict

(* The two values process_user_input derives from the utterance alone,
   tabulated over the inputs so that each is computed once:
   user_input.lower().strip() and self._detect_objection(user_input_lower). *)
user_input_lower_of == Tabulated([u \in Inputs |-> lower(strip(u))])

objection_type_of ==
  Tabulated([u \in Inputs |-> _detect_objection(user_input_lower_of[u])])

(* Mutant: in SALARY_COLLECTION the salary is extracted before the
   objection check. *)
process_user_input_extract_first(s, user_input) ==
  LET user_input_lower == user_input_lower_of[user_input]
      s1 == [ s EXCEPT !.conversation_history =
                Append(@, [state |-> "user_input", message |-> user_input]) ]
      objection_type == objection_type_of[user_input]
      extracts == /\ s.current_state = SALARY_COLLECTION
                  /\ re_search_digits(user_input) # None
  IN  IF truthy(objection_type) /\ ~extracts
      THEN LET h == _handle_objection(s1, objection_type[1])
           IN  [ s |-> h.s,
                 r |-> [message |-> Some(h.r), state |-> "objection_handling"],
                 w |-> h.w,
                 o |-> objection_type ]
      ELSE dispatch(s1, user_input, user_input_lower) @@ [o |-> objection_type]

(* Mutant: in BENEFITS_EXPLANATION a positive word is looked for before the
   objection check. *)
process_user_input_positive_first(s, user_input) ==
  LET user_input_lower == user_input_lower_of[user_input]
      s1 == [ s EXCEPT !.conversation_history =
                Append(@, [state |-> "user_input", message |-> user_input]) ]
      objection_type == objection_type_of[user_input]
      positive == /\ s.current_state = BENEFITS_EXPLANATION
                  /\ any_keyword_in(positive_words, user_input_lower)
  IN  IF truthy(objection_type) /\ ~positive
      THEN LET h == _handle_objection(s1, objection_type[1])
           IN  [ s |-> h.s,
                 r |-> [message |-> Some(h.r), state |-> "objection_handling"],
                 w |-> h.w,
                 o |-> objection_type ]
      ELSE dispatch(s1, user_input, user_input_lower) @@ [o |-> objection_type]

(* Mutant: the history records the lowered, trimmed utterance. *)
process_user_input_logs_lowered(s, user_input) ==
  LET user_input_lower == user_input_lower_of[user_input]
      s1 == [ s EXCEPT !.conversation_history =
                Append(@, [state |-> "user_input", message |-> user_input_lower]) ]
      objection_type == objection_type_of[user_input]
  IN  IF truthy(objection_type)
      THEN LET h == _handle_objection(s1, objection_type[1])
           IN  [ s |-> h.s,
                 r |-> [message |-> Some(h.r), state |-> "objection_handling"],
                 w |-> h.w,
                 o |-> objection_type ]
      ELSE dispatch(s1, user_input, user_input_lower) @@ [o |-> objection_type]

(* ConversationManager.process_user_input.  The frame also carries the
   method's local objection_type (o). *)
process_user_input(s, user_input) ==
  LET user_input_lower == user_input_lower_of[user_input]
      s1 == [ s EXCEPT !.conversation_history =
                Append(@, [state |-> "user_input", message |-> user_input]) ]
      objection_type == objection_type_of[user_input]
  IN  IF truthy(objection_type)
      THEN LET h == _handle_objection(s1, objection_type[1])
           IN  [ s |-> h.s,
                 r |-> [message |-> Some(h.r), state |-> "objection_handling"],
                 w |-> h.w,
                 o |-> objection_type ]
      ELSE dispatch(s1, user_input, user_input_lower) @@ [o |-> objection_type]

(* Mutant: the history is replaced by the 'call_ended' entry. *)
end_call_replaces_history(s, outcome) ==
  Frame([ s EXCEPT !.current_state = ENDED,
                   !.conversation_history =
                     << [ state   |-> "call_ended",
                          message |-> "Call ended with outcome: " \o outcome ] >> ],
        None, << ENDED >>)

(* Mutant: ending the call also drops what was collected. *)
end_call_clears_slots(s, outcome) ==
  Frame([ s EXCEPT !.current_state = ENDED,
                   !.customer_data = EmptyDict,
                   !.conversation_history =
                     Append(@, [ state   |-> "call_ended",
                                 message |-> "Call ended with outcome: " \o outcome ]) ],
        None, << ENDED >>)

(* ConversationManager.end_call *)
end_call(s, outcome) ==
  Frame([ s EXCEPT !.current_state = ENDED,
                   !.conversation_history =
                     Append(@, [ state   |-> "call_ended",
                                 message |-> "Call ended with outcome: " \o outcome ]) ],
        None, << ENDED >>)

(***************************************************************************)
(* The host's side: what it calls the engine with.                         *)
(***************************************************************************)
CustomerNames == {"Asha", "Yogesh Kumar"}

AgentNames == {"Rahul"}

Languages == {"en-IN"}

Outcomes == {"unknown"}

(* Bounds of the exploration: the calls of a run other than a turn with the
   scripted reply, the length of the history, and the length of the history
   up to which the detector's own inputs are sent. *)
MaxDetours == 2

MaxHistory == 23

MaxDetectorHistory == 1

(* The turns made after a turn and end_call have run at once. *)
MaxLaterTurns == 1

VARIABLES
  cm,             \* the ConversationManager object (its mutable fields)
  op,             \* the method the host called last
  arg,            \* its argument(s)
  ret,            \* the value it returned
  assigned,       \* the values it assigned to current_state, in order
  objection_type, \* process_user_input's local: the detector's result
  pre,            \* the object as it was when the call began
  calls,          \* the methods called since the session was (re)started
  detours,        \* calls made so far other than scripted turns
  inflight,       \* a turn run step by step: its position and its locals
  ending,         \* an end_call run step by step: its position
  active_calls,   \* the host's active_calls: whether the session is in it
  speech,         \* the SpeechEngine: is_listening, its listen threads, its caller
  host            \* the host's database, registries and running handlers

vars == << cm, op, arg, ret, assigned, objection_type, pre, calls, detours,
           inflight, ending, active_calls, speech, host >>

(* SpeechEngine.__init__, as far as listening goes: is_listening; the
   listen threads started so far, each with its position in _listen_thread,
   its continuous argument, whether stop_listening has told it to stop and
   whether it went on listening afterwards; whether the caller is inside
   stop_listening's join; and the last call made with what it found and
   returned. *)
NewSpeechEngine ==
  [ is_listening |-> FALSE,
    threads      |-> <<>>,
    joining      |-> FALSE,
    call         |-> "__init__",
    found        |-> FALSE,
    returned     |-> FALSE ]

(* No handler of the host is running: its position and its locals. *)
NoHandler ==
  [ pc |-> "idle", message |-> "", call_id |-> 0, active |-> FALSE, rows |-> 0, turned |-> FALSE ]

(* The host of src/app.py before any event, for one session id: the calls
   table of the database (the status of each record, by id) and its
   transcripts table (for each row its call_id, its speaker and whether the
   call's record was already 'completed' when the row was written); the
   call_id in active_calls[session_id]; whether the session id is in
   speech_engines and in conversation_managers; the running
   handle_user_message and end_call_internal; the number of events received
   and the last handler that finished. *)
NewHost ==
  [ calls                 |-> <<>>,
    transcripts           |-> <<>>,
    call_id               |-> 0,
    speech_engines        |-> FALSE,
    conversation_managers |-> FALSE,
    user_message          |-> NoHandler,
    end_call              |-> NoHandler,
    events                |-> 0,
    finished              |-> "connect" ]

(* No turn is in flight: the locals of process_user_input and of the methods
   it calls, before the call. *)
Idle ==
  [ pc                |-> "idle",
    user_input        |-> "",
    user_input_lower  |-> "",
    objection_type    |-> None,
    caller            |-> "",
    valid_states      |-> <<>>,
    formatted_message |-> "",
    entry_state       |-> "",
    next_message      |-> None,
    result            |-> None ]

Init ==
  /\ cm = NewConversationManager
  /\ op = "__init__"
  /\ arg = None
  /\ ret = None
  /\ assigned = <<>>
  /\ objection_type = None
  /\ pre = NewConversationManager
  /\ calls = << "__init__" >>
  /\ detours = 0
  /\ inflight = Idle
  /\ ending = "idle"
  /\ active_calls = FALSE
  /\ speech = NewSpeechEngine
  /\ host = NewHost

(* The call `name(a)` ran on cm and left frame f. *)
Called(name, a, f, o) ==
  /\ cm' = f.s
  /\ op' = name
  /\ arg' = a
  /\ ret' = f.r
  /\ assigned' = f.w
  /\ objection_type' = o
  /\ pre' = cm
  /\ calls' = IF name \in {"start_call", "handle_start_call"} THEN << name >>
              ELSE Append(calls, name)

Spend(cost) ==
  /\ detours + cost <= MaxDetours
  /\ detours' = detours + cost

Room(n) == Len(cm.conversation_history) + n <= MaxHistory

(* One turn: the host hands the engine an utterance. *)
Turn(user_input) ==
  LET f == process_user_input(cm, user_input)
  IN  Called("process_user_input", user_input, f, f.o)

StartCall(customer_name, agent_name, language) ==
  /\ Spend(1)
  /\ Called("start_call", << customer_name, agent_name, language >>,
            start_call(cm, customer_name, agent_name, language), None)
  /\ UNCHANGED << inflight, ending, active_calls, speech, host >>

GetNextMessage ==
  /\ Spend(1)
  /\ Room(1)
  /\ Called("get_next_message", None, get_next_message(cm), None)
  /\ UNCHANGED << inflight, ending, active_calls, speech, host >>

ProcessUserInput(user_input) ==
  /\ Spend(IF user_input = ScriptedReply THEN 0 ELSE 1)
  /\ Room(2)
  /\ Turn(user_input)
  /\ UNCHANGED << inflight, ending, active_calls, speech, host >>

EndCall(outcome) ==
  /\ Spend(1)
  /\ Room(1)
  /\ Called("end_call", outcome, end_call(cm, outcome), None)
  /\ UNCHANGED << inflight, ending, active_calls, speech, host >>

Next ==
  \/ \E c \in CustomerNames, a \in AgentNames, l \in Languages : StartCall(c, a, l)
  \/ GetNextMessage
  \/ \E u \in Utterances : ProcessUserInput(u)
  \/ \E o \in Outcomes : EndCall(o)

Spec == Init /\ [][Next]_vars

(* The detector by itself: turns of a fresh session on the detector's
   inputs. *)
DetectorTurn(user_input) ==
  /\ Len(cm.conversation_history) < MaxDetectorHistory
  /\ Turn(user_input)
  /\ UNCHANGED << detours, inflight, ending, active_calls, speech, host >>

NextDetect == \E u \in DetectorInputs : DetectorTurn(u)

SpecDetect == Init /\ [][NextDetect]_vars

(* The state handlers: the scripted reply walks a session down the script,
   and the handlers' inputs are sent on the way. *)
NextHandlers == \E u \in {ScriptedReply} \cup HandlerInputs : ProcessUserInput(u)

SpecHandlers == Init /\ [][NextHandlers]_vars

(* The salary handler's int(): the scripted reply walks a session down the
   script, and the long digit run is sent on the way. *)
NextLongRun ==
  \/ \E c \in CustomerNames, a \in AgentNames, l \in Languages : StartCall(c, a, l)
  \/ \E u \in LongRunInputs : ProcessUserInput(u)

SpecLongRun == Init /\ [][NextLongRun]_vars

(***************************************************************************)
(* A turn and end_call on one session at once.  The engine takes no lock,  *)
(* so the two calls interleave between any two accesses of the object's    *)
(* fields.  A step below is one access (a read or a write of current_state,*)
(* an append to conversation_history, the store of the salary) together    *)
(* with the work on locals and on the immutable tables that follows it.    *)
(* The if/elif chain of process_user_input compares current_state with one *)
(* state after the other; end_call is the only other writer and writes     *)
(* once, so the chain takes the branch of the value read at one moment:    *)
(* it is one step.                                                         *)
(***************************************************************************)
RaceIdle == inflight.pc = "idle" /\ ending = "idle"

RaceOver == inflight.pc \in {"done", "raised"} /\ ending = "done"

(* The host calls process_user_input(user_input) and end_call(outcome) on
   the session from two threads. *)
RaceBegin(user_input, outcome) ==
  /\ RaceIdle
  /\ Room(3)
  /\ inflight' = [ Idle EXCEPT !.pc = "append", !.user_input = user_input ]
  /\ ending' = "write"
  /\ op' = "process_user_input || end_call"
  /\ arg' = << user_input, outcome >>
  /\ ret' = None
  /\ assigned' = <<>>
  /\ objection_type' = None
  /\ pre' = cm
  /\ calls' = Append(calls, "process_user_input || end_call")
  /\ UNCHANGED << cm, detours, active_calls, speech, host >>

(* One step of the turn: the object after it, the turn's position and
   locals after it, and the values it assigned to current_state. *)
TurnStep(s, i, w) ==
  /\ cm' = s
  /\ inflight' = i
  /\ assigned' = assigned \o w
  /\ ret' = i.result
  /\ objection_type' = i.objection_type
  /\ UNCHANGED << op, arg, pre, calls, detours, ending, active_calls, speech, host >>

(* The turn returns r. *)
Returned(i, r) == [ i EXCEPT !.pc = "done", !.result = r ]

(* get_next_message returned next_message to the statement that called it:
   a handler's return statement, the default branch of process_user_input,
   or _get_default_response. *)
after_get_next_message(i, next_message) ==
  IF i.caller = "handler"
  THEN [ i EXCEPT !.pc = "return_state", !.next_message = next_message ]
  ELSE IF truthy(next_message)
  THEN [ i EXCEPT !.pc = "return_state", !.next_message = next_message ]
  ELSE IF i.caller = "default_branch"
  THEN [ i EXCEPT !.pc = "message_check", !.caller = "_get_default_response" ]
  ELSE Returned(i, [ message |-> Some("Thank you for your response. Let me continue with the process."),
                     state   |-> "continuation" ])

(* process_user_input: the utterance is lowered and trimmed, appended to the
   history, and handed to the detector. *)
TurnAppend ==
  /\ inflight.pc = "append"
  /\ LET user_input == inflight.user_input
         detected == objection_type_of[user_input]
     IN  TurnStep([ cm EXCEPT !.conversation_history =
                      Append(@, [state |-> "user_input", message |-> user_input]) ],
                  [ inflight EXCEPT
                      !.user_input_lower = user_input_lower_of[user_input],
                      !.objection_type = detected,
                      !.pc = IF truthy(detected) THEN "handle_objection" ELSE "dispatch" ],
                  <<>>)

(* _handle_objection and the return of the objection's response. *)
TurnHandleObjection ==
  /\ inflight.pc = "handle_objection"
  /\ LET h == _handle_objection(cm, inflight.objection_type[1])
     IN  TurnStep(h.s,
                  Returned(inflight, [message |-> Some(h.r), state |-> "objection_handling"]),
                  h.w)

(* The if/elif chain on current_state, and the handlers' tests of the
   utterance. *)
TurnDispatch ==
  /\ inflight.pc = "dispatch"
  /\ LET state == cm.current_state
         to_transition == [ inflight EXCEPT !.pc = "transition_check", !.caller = "handler" ]
     IN  TurnStep(cm,
           IF state \in {GREETING, SCRIPT_INTRODUCTION, RECORDING_NOTICE}
           THEN to_transition
           ELSE IF state = EMPLOYMENT_STATUS
           THEN IF any_keyword_in(employment_words, inflight.user_input_lower)
                THEN to_transition
                ELSE Returned(inflight,
                       _process_employment_status(cm, inflight.user_input_lower).r)
           ELSE IF state = SALARY_COLLECTION
           THEN IF re_search_digits(str_remove(inflight.user_input, ",")) # None
                THEN IF int_raises(re_search_digits(str_remove(inflight.user_input, ","))[1])
                     THEN [ inflight EXCEPT !.pc = "raised" ]
                     ELSE [ inflight EXCEPT !.pc = "store_salary" ]
                ELSE Returned(inflight,
                       _process_salary_collection(cm, inflight.user_input).r)
           ELSE IF state = PERSONAL_DETAILS
           THEN [ inflight EXCEPT !.pc = "personal_details_check" ]
           ELSE IF state = BENEFITS_EXPLANATION
           THEN IF any_keyword_in(positive_words, inflight.user_input_lower)
                THEN to_transition
                ELSE Returned(inflight,
                       _process_benefits_response(cm, inflight.user_input_lower).r)
           ELSE [ inflight EXCEPT !.pc = "transition_check", !.caller = "default_branch" ],
           <<>>)

(* _process_salary_collection: self.customer_data['salary'] = salary *)
TurnStoreSalary ==
  /\ inflight.pc = "store_salary"
  /\ LET salary == to_int(re_search_digits(str_remove(inflight.user_input, ","))[1])
     IN  TurnStep([ cm EXCEPT !.customer_data = dict_set(@, "salary", salary) ],
                  [ inflight EXCEPT !.pc = "transition_check", !.caller = "handler" ],
                  <<>>)

(* _process_personal_details: if self.current_state == CallState.PERSONAL_DETAILS *)
TurnPersonalDetailsCheck ==
  /\ inflight.pc = "personal_details_check"
  /\ TurnStep(cm,
              IF cm.current_state = PERSONAL_DETAILS
              THEN [ inflight EXCEPT !.pc = "transition_check", !.caller = "handler" ]
              ELSE [ inflight EXCEPT !.pc = "message_check",
                                     !.caller = "_get_default_response" ],
              <<>>)

(* _transition_to_next_state: if self.current_state in self.state_transitions *)
TurnTransitionCheck ==
  /\ inflight.pc = "transition_check"
  /\ TurnStep(cm,
              [ inflight EXCEPT !.pc = IF cm.current_state \in DOMAIN state_transitions
                                       THEN "transition_lookup"
                                       ELSE "message_check" ],
              <<>>)

(* _transition_to_next_state: valid_states = self.state_transitions[self.current_state],
   a KeyError where the state read now has no entry. *)
TurnTransitionLookup ==
  /\ inflight.pc = "transition_lookup"
  /\ TurnStep(cm,
              IF cm.current_state \notin DOMAIN state_transitions
              THEN [ inflight EXCEPT !.pc = "raised" ]
              ELSE LET valid_states == state_transitions[cm.current_state]
                   IN  [ inflight EXCEPT !.valid_states = valid_states,
                                         !.pc = IF valid_states # <<>>
                                                THEN "transition_write"
                                                ELSE "message_check" ],
              <<>>)

(* _transition_to_next_state: self.current_state = valid_states[0] *)
TurnTransitionWrite ==
  /\ inflight.pc = "transition_write"
  /\ TurnStep([ cm EXCEPT !.current_state = inflight.valid_states[1] ],
              [ inflight EXCEPT !.pc = "message_check" ],
              << inflight.valid_states[1] >>)

(* get_next_message: if self.current_state not in self.script_messages: return None *)
TurnMessageCheck ==
  /\ inflight.pc = "message_check"
  /\ TurnStep(cm,
              IF cm.current_state \notin DOMAIN script_messages
              THEN after_get_next_message(inflight, None)
              ELSE [ inflight EXCEPT !.pc = "message_lookup" ],
              <<>>)

(* get_next_message: messages = self.script_messages[self.current_state], a
   KeyError where the state read now has no entry; then the first message is
   formatted. *)
TurnMessageLookup ==
  /\ inflight.pc = "message_lookup"
  /\ TurnStep(cm,
              IF cm.current_state \notin DOMAIN script_messages
              THEN [ inflight EXCEPT !.pc = "raised" ]
              ELSE LET messages == script_messages[cm.current_state]
                   IN  IF messages # <<>>
                       THEN LET message == messages[1]
                                formatted == format(message, format_kwargs(cm))
                            IN  [ inflight EXCEPT
                                    !.formatted_message =
                                      IF formatted = None THEN raw_template(message)
                                      ELSE formatted[1],
                                    !.pc = "message_entry" ]
                       ELSE after_get_next_message(inflight, None),
              <<>>)

(* get_next_message: the history entry is built: 'state': self.current_state.value *)
TurnMessageEntry ==
  /\ inflight.pc = "message_entry"
  /\ TurnStep(cm,
              [ inflight EXCEPT !.entry_state = cm.current_state,
                                !.pc = "message_append" ],
              <<>>)

(* get_next_message: the entry is appended and the message returned. *)
TurnMessageAppend ==
  /\ inflight.pc = "message_append"
  /\ TurnStep([ cm EXCEPT !.conversation_history =
                  Append(@, [ state   |-> inflight.entry_state,
                              message |-> inflight.formatted_message ]) ],
              after_get_next_message(inflight, Some(inflight.formatted_message)),
              <<>>)

(* return {'message': ..., 'state': self.current_state.value} *)
TurnReturnState ==
  /\ inflight.pc = "return_state"
  /\ TurnStep(cm,
              Returned(inflight, [ message |-> inflight.next_message,
                                   state   |-> cm.current_state ]),
              <<>>)

(* end_call: self.current_state = CallState.ENDED *)
EndCallWrite ==
  /\ ending = "write"
  /\ cm' = [ cm EXCEPT !.current_state = ENDED ]
  /\ assigned' = Append(assigned, ENDED)
  /\ ending' = "append"
  /\ UNCHANGED << op, arg, ret, objection_type, pre, calls, detours, inflight,
                  active_calls, speech, host >>

(* end_call: the 'call_ended' entry is appended. *)
EndCallAppend ==
  /\ ending = "append"
  /\ cm' = [ cm EXCEPT !.conversation_history =
               Append(@, [ state   |-> "call_ended",
                           message |-> "Call ended with outcome: " \o arg[2] ]) ]
  /\ ending' = "done"
  /\ UNCHANGED << op, arg, ret, assigned, objection_type, pre, calls, detours,
                  inflight, active_calls, speech, host >>

(* The turns that bring the session to the state the race begins in. *)
SetupReplies == { ScriptedReply, "I don't need this" }

RaceSetupStart(customer_name, agent_name, language) ==
  /\ RaceIdle
  /\ op = "__init__"
  /\ StartCall(customer_name, agent_name, language)

(* The turns made since the two calls began. *)
LaterTurns ==
  Len(calls) - (CHOOSE i \in 1..Len(calls) : calls[i] = "process_user_input || end_call")

(* A turn that runs alone: one that brings the session to the state the two
   calls begin in, or one made after both have finished. *)
SerialTurn(user_input) ==
  /\ \/ RaceIdle /\ user_input \in SetupReplies
     \/ RaceOver /\ LaterTurns < MaxLaterTurns
  /\ ProcessUserInput(user_input)

NextRace ==
  \/ \E c \in CustomerNames, a \in AgentNames, l \in Languages : RaceSetupStart(c, a, l)
  \/ \E u \in Utterances : SerialTurn(u)
  \/ \E u \in Utterances, o \in Outcomes : RaceBegin(u, o)
  \/ TurnAppend
  \/ TurnHandleObjection
  \/ TurnDispatch
  \/ TurnStoreSalary
  \/ TurnPersonalDetailsCheck
  \/ TurnTransitionCheck
  \/ TurnTransitionLookup
  \/ TurnTransitionWrite
  \/ TurnMessageCheck
  \/ TurnMessageLookup
  \/ TurnMessageEntry
  \/ TurnMessageAppend
  \/ TurnReturnState
  \/ EndCallWrite
  \/ EndCallAppend

SpecRace == Init /\ [][NextRace]_vars

(***************************************************************************)
(* The web host of src/app.py, for one client session: its handlers of the *)
(* 'start_call', 'user_message' and 'end_call' events.  active_calls is    *)
(* whether the session id is in the host's active_calls; the session's     *)
(* ConversationManager is in conversation_managers exactly then.  These    *)
(* handlers are taken as far as the engine goes; the database and the      *)
(* registries come with the handlers of SpecCalls below.                   *)
(***************************************************************************)

(* The 'message' field of the events a client sends. *)
HostMessages == { "", " ", " hello ", "I don't need this", ScriptedReply }

(* handle_start_call: a new ConversationManager is made and registered, the
   call is started and the greeting is fetched. *)
handle_start_call(customer_name, agent_name, language) ==
  LET conversation_manager == NewConversationManager
      started == start_call(conversation_manager, customer_name, agent_name, language)
      greeting == get_next_message(started.s)
  IN  Frame(greeting.s, greeting.r, started.w \o greeting.w)

HandleStartCall(customer_name, agent_name, language) ==
  /\ Spend(1)
  /\ Called("handle_start_call", << customer_name, agent_name, language >>,
            handle_start_call(customer_name, agent_name, language), None)
  /\ active_calls' = TRUE
  /\ UNCHANGED << inflight, ending, speech, host >>

(* Mutant: the handler hands the engine every message of an active session,
   the empty one too. *)
HandleUserMessageUnfiltered(data_message) ==
  LET message == strip(data_message)
  IN  /\ Spend(IF message = ScriptedReply /\ active_calls THEN 0 ELSE 1)
      /\ Room(2)
      /\ IF ~active_calls
         THEN Called("handle_user_message", data_message, Frame(cm, None, <<>>), None)
         ELSE LET f == process_user_input(cm, message)
              IN  Called("handle_user_message", data_message, f, f.o)
      /\ UNCHANGED << inflight, ending, active_calls, speech, host >>

(* handle_user_message: the message is stripped; an empty message, or one
   for a session that is not active, is dropped; any other is handed to
   process_user_input. *)
HandleUserMessage(data_message) ==
  LET message == strip(data_message)
  IN  /\ Spend(IF message = ScriptedReply /\ active_calls THEN 0 ELSE 1)
      /\ Room(2)
      /\ IF message = "" \/ ~active_calls
         THEN Called("handle_user_message", data_message, Frame(cm, None, <<>>), None)
         ELSE LET f == process_user_input(cm, message)
              IN  Called("handle_user_message", data_message, f, f.o)
      /\ UNCHANGED << inflight, ending, active_calls, speech, host >>

(* handle_end_call / end_call_internal: the session is taken out of
   active_calls and its ConversationManager out of conversation_managers;
   the object itself is not touched. *)
HandleEndCall ==
  /\ Spend(1)
  /\ Called("handle_end_call", None, Frame(cm, None, <<>>), None)
  /\ active_calls' = FALSE
  /\ UNCHANGED << inflight, ending, speech, host >>

(* The engine with its host, and a caller that hands process_user_input an
   utterance as it is, the empty one among them. *)
NextHost ==
  \/ \E c \in CustomerNames, a \in AgentNames, l \in Languages : HandleStartCall(c, a, l)
  \/ \E m \in HostMessages : HandleUserMessage(m)
  \/ HandleEndCall
  \/ \E u \in OtherReplies : ProcessUserInput(u)

SpecHost == Init /\ [][NextHost]_vars

(***************************************************************************)
(* The host with its database and its registries, for one session id.  Each *)
(* event is handled on a thread of its own (async_mode='threading'), so a   *)
(* handle_user_message and an end_call_internal of one session interleave   *)
(* statement by statement; 'start_call' and 'disconnect' are taken while no *)
(* other handler of the session is running.                                 *)
(***************************************************************************)
MaxEvents == 4

CallMessages == { "", " hello ", ScriptedReply }

HandlersIdle == host.user_message.pc = "idle" /\ host.end_call.pc = "idle"

(* db_manager.create_call / update_call / add_transcript *)
create_call(calls_table, status) == Append(calls_table, status)

update_call(calls_table, call_id, status) ==
  [ i \in DOMAIN calls_table |-> IF i = call_id THEN status ELSE calls_table[i] ]

add_transcript(h, call_id, speaker) ==
  Append(h.transcripts, [ call_id |-> call_id, speaker |-> speaker,
                          late    |-> h.calls[call_id] = "completed" ])

(* A statement of a handler that leaves the engine alone. *)
HostStep(next, active) ==
  /\ host' = next
  /\ active_calls' = active
  /\ UNCHANGED << cm, op, arg, ret, assigned, objection_type, pre, calls, detours,
                  inflight, ending, speech >>

(* handle_start_call with its database: the session's SpeechEngine and
   ConversationManager are replaced, a call record is created with status
   'in_progress', active_calls[session_id] is set to the new record's id,
   the call is started and the greeting fetched. *)
OnStartCall(customer_name, agent_name, language) ==
  /\ HandlersIdle
  /\ host.events < MaxEvents
  /\ Called("handle_start_call", << customer_name, agent_name, language >>,
            handle_start_call(customer_name, agent_name, language), None)
  /\ LET calls_table == create_call(host.calls, "in_progress")
     IN  host' = [ host EXCEPT !.speech_engines = TRUE,
                               !.conversation_managers = TRUE,
                               !.calls = calls_table,
                               !.call_id = Len(calls_table),
                               !.events = @ + 1,
                               !.finished = "start_call" ]
  /\ active_calls' = TRUE
  /\ UNCHANGED << detours, inflight, ending, speech >>

(* end_call_internal, run without interruption. *)
end_call_internal(h, active) ==
  IF ~active THEN h
  ELSE [ h EXCEPT !.calls = update_call(@, h.call_id, "completed"),
                  !.speech_engines = FALSE,
                  !.conversation_managers = FALSE ]

(* handle_disconnect: end_call_internal if the session is in active_calls,
   then the session is taken out of speech_engines and
   conversation_managers. *)
OnDisconnect ==
  /\ HandlersIdle
  /\ host.events < MaxEvents
  /\ HostStep([ end_call_internal(host, active_calls) EXCEPT
                  !.speech_engines = FALSE,
                  !.conversation_managers = FALSE,
                  !.events = @ + 1,
                  !.finished = "disconnect" ],
              FALSE)

(* handle_user_message: message = data.get('message', '').strip();
   if not message or session_id not in active_calls: return *)
UserMessageReceived(data_message) ==
  LET message == strip(data_message)
      go      == message # "" /\ active_calls
  IN  /\ host.user_message.pc = "idle"
      /\ host.events < MaxEvents
      /\ HostStep([ host EXCEPT
                      !.user_message = [ pc      |-> IF go THEN "call_info" ELSE "idle",
                                         message |-> message,
                                         call_id |-> 0,
                                         active  |-> active_calls,
                                         rows    |-> 0,
                                         turned  |-> FALSE ],
                      !.events = @ + 1,
                      !.finished = IF go THEN @ ELSE "user_message" ],
                  active_calls)

(* handle_user_message: call_info = active_calls[session_id];
   call_id = call_info['call_id'].  A KeyError ends the handler in its
   except clause. *)
UserMessageCallInfo ==
  /\ host.user_message.pc = "call_info"
  /\ HostStep(IF active_calls
              THEN [ host EXCEPT !.user_message.pc = "customer",
                                 !.user_message.call_id = host.call_id ]
              ELSE [ host EXCEPT !.user_message.pc = "idle",
                                 !.finished = "user_message" ],
              active_calls)

(* handle_user_message: db_manager.add_transcript(transcript), the
   customer's row. *)
UserMessageCustomerRow ==
  /\ host.user_message.pc = "customer"
  /\ HostStep([ host EXCEPT
                  !.transcripts = add_transcript(host, host.user_message.call_id, "customer"),
                  !.user_message.rows = @ + 1,
                  !.user_message.pc = "manager" ],
              active_calls)

(* handle_user_message: if session_id in conversation_managers:
   conversation_manager = conversation_managers[session_id] *)
UserMessageManager ==
  /\ host.user_message.pc = "manager"
  /\ HostStep(IF host.conversation_managers
              THEN [ host EXCEPT !.user_message.pc = "turn" ]
              ELSE [ host EXCEPT !.user_message.pc = "idle",
                                 !.finished = "user_message" ],
              active_calls)

(* handle_user_message: response = conversation_manager.process_user_input(
   message); an exception ends the handler in its except clause. *)
UserMessageTurn ==
  /\ host.user_message.pc = "turn"
  /\ LET f == process_user_input(cm, host.user_message.message)
     IN  /\ Called("handle_user_message", host.user_message.message, f, f.o)
         /\ host' = IF "raised" \in DOMAIN f.r
                    THEN [ host EXCEPT !.user_message.pc = "idle",
                                       !.user_message.turned = TRUE,
                                       !.finished = "user_message" ]
                    ELSE [ host EXCEPT !.user_message.pc = "agent",
                                       !.user_message.turned = TRUE ]
  /\ UNCHANGED << detours, inflight, ending, active_calls, speech >>

(* handle_user_message: db_manager.add_transcript(agent_transcript), the
   agent's row, and the emit to the client. *)
UserMessageAgentRow ==
  /\ host.user_message.pc = "agent"
  /\ HostStep([ host EXCEPT
                  !.transcripts = add_transcript(host, host.user_message.call_id, "agent"),
                  !.user_message.rows = @ + 1,
                  !.user_message.pc = "speak" ],
              active_calls)

(* handle_user_message: call_info = active_calls[session_id] and the speak
   thread; with a KeyError or without, the handler ends. *)
UserMessageSpeak ==
  /\ host.user_message.pc = "speak"
  /\ HostStep([ host EXCEPT !.user_message.pc = "idle", !.finished = "user_message" ],
              active_calls)

(* end_call_internal: if session_id not in active_calls: return *)
EndCallReceived ==
  /\ host.end_call.pc = "idle"
  /\ host.events < MaxEvents
  /\ HostStep([ host EXCEPT
                  !.end_call.pc = IF active_calls THEN "call_info" ELSE "idle",
                  !.events = @ + 1,
                  !.finished = IF active_calls THEN @ ELSE "end_call" ],
              active_calls)

(* end_call_internal: call_info = active_calls[session_id];
   call_id = call_info['call_id']; duration *)
EndCallCallInfo ==
  /\ host.end_call.pc = "call_info"
  /\ HostStep([ host EXCEPT !.end_call.pc = "update", !.end_call.call_id = host.call_id ],
              active_calls)

(* end_call_internal: db_manager.update_call(call_id, updates) with status
   'completed' *)
EndCallUpdate ==
  /\ host.end_call.pc = "update"
  /\ HostStep([ host EXCEPT
                  !.calls = update_call(@, host.end_call.call_id, "completed"),
                  !.end_call.pc = "speech_engines" ],
              active_calls)

(* end_call_internal: cleanup and del speech_engines[session_id] *)
EndCallSpeechEngines ==
  /\ host.end_call.pc = "speech_engines"
  /\ HostStep([ host EXCEPT !.speech_engines = FALSE,
                            !.end_call.pc = "conversation_managers" ],
              active_calls)

(* end_call_internal: del conversation_managers[session_id] *)
EndCallConversationManagers ==
  /\ host.end_call.pc = "conversation_managers"
  /\ HostStep([ host EXCEPT !.conversation_managers = FALSE,
                            !.end_call.pc = "active_calls" ],
              active_calls)

(* end_call_internal: del active_calls[session_id], and the emits *)
EndCallActiveCalls ==
  /\ host.end_call.pc = "active_calls"
  /\ HostStep([ host EXCEPT !.end_call.pc = "idle", !.finished = "end_call" ],
              FALSE)

NextCalls ==
  \/ \E c \in CustomerNames, a \in AgentNames, l \in Languages : OnStartCall(c, a, l)
  \/ OnDisconnect
  \/ \E m \in CallMessages : UserMessageReceived(m)
  \/ UserMessageCallInfo
  \/ UserMessageCustomerRow
  \/ UserMessageManager
  \/ UserMessageTurn
  \/ UserMessageAgentRow
  \/ UserMessageSpeak
  \/ EndCallReceived
  \/ EndCallCallInfo
  \/ EndCallUpdate
  \/ EndCallSpeechEngines
  \/ EndCallConversationManagers
  \/ EndCallActiveCalls

SpecCalls == Init /\ [][NextCalls]_vars

(***************************************************************************)
(* The SpeechEngine of src/ai_agent/speech_engine.py: start_listening and   *)
(* stop_listening called by one caller, and the listen threads they start,  *)
(* each running _listen_thread statement by statement.  A thread is in the  *)
(* capture loop from the moment the microphone is open until it leaves the  *)
(* while loop: at the loop test ("loop") or inside recognizer.listen        *)
(* ("listen"), which blocks for up to timeout=5 seconds waiting for speech. *)
(***************************************************************************)
MaxListenThreads == 2

ListenStep(next) ==
  /\ speech' = next
  /\ UNCHANGED << cm, op, arg, ret, assigned, objection_type, pre, calls, detours,
                  inflight, ending, active_calls, host >>

(* SpeechEngine.start_listening *)
StartListening(continuous) ==
  /\ ~speech.joining
  /\ speech.is_listening \/ Len(speech.threads) < MaxListenThreads
  /\ ListenStep(
       IF speech.is_listening
       THEN [ speech EXCEPT !.call = "start_listening", !.found = TRUE,
                            !.returned = FALSE ]
       ELSE [ speech EXCEPT !.is_listening = TRUE,
                            !.threads = Append(@, [ pc         |-> "start",
                                                    continuous |-> continuous,
                                                    told       |-> FALSE,
                                                    resumed    |-> FALSE ]),
                            !.call = "start_listening", !.found = FALSE,
                            !.returned = TRUE ])

(* SpeechEngine.stop_listening, up to the join: the test of is_listening
   and self.is_listening = False.  Every thread still running has now been
   told to stop. *)
StopListening ==
  /\ ~speech.joining
  /\ ListenStep(
       IF ~speech.is_listening
       THEN [ speech EXCEPT !.call = "stop_listening", !.found = FALSE,
                            !.returned = FALSE ]
       ELSE [ speech EXCEPT !.is_listening = FALSE,
                            !.threads = [ i \in DOMAIN @ |->
                                            IF @[i].pc = "done" THEN @[i]
                                            ELSE [ @[i] EXCEPT !.told = TRUE ] ],
                            !.joining = TRUE,
                            !.call = "stop_listening", !.found = TRUE ])

(* stop_listening: self.listen_thread.join(timeout=2) and return True.  The
   join ends when the last thread started has finished, or after 2 seconds
   with the thread still inside recognizer.listen(timeout=5). *)
StopListeningJoined ==
  /\ speech.joining
  /\ \/ speech.threads = <<>>
     \/ speech.threads[Len(speech.threads)].pc \in {"done", "listen"}
  /\ ListenStep([ speech EXCEPT !.joining = FALSE, !.returned = TRUE ])

ThreadStep(i, next) ==
  ListenStep([ speech EXCEPT !.threads[i] = next ])

(* _listen_thread: with sr.Microphone() as source, adjust_for_ambient_noise;
   an exception here (no device, device busy) leads to the finally clause. *)
ThreadOpensMicrophone(i) ==
  /\ speech.threads[i].pc = "start"
  /\ \E pc \in {"loop", "finally"} : ThreadStep(i, [ speech.threads[i] EXCEPT !.pc = pc ])

(* _listen_thread: while self.is_listening *)
ThreadTestsFlag(i) ==
  /\ speech.threads[i].pc = "loop"
  /\ ThreadStep(i,
       IF speech.is_listening
       THEN [ speech.threads[i] EXCEPT !.pc = "listen", !.resumed = @ \/ speech.threads[i].told ]
       ELSE [ speech.threads[i] EXCEPT !.pc = "finally" ])

(* _listen_thread: recognizer.listen returned audio; it is handed to a
   _process_audio thread; a thread that is not continuous clears
   is_listening and leaves the loop. *)
ThreadHears(i) ==
  /\ speech.threads[i].pc = "listen"
  /\ ListenStep(
       IF speech.threads[i].continuous
       THEN [ speech EXCEPT !.threads[i].pc = "loop" ]
       ELSE [ speech EXCEPT !.threads[i].pc = "finally", !.is_listening = FALSE ])

(* _listen_thread: recognizer.listen raised WaitTimeoutError: continue. *)
ThreadHearsNothing(i) ==
  /\ speech.threads[i].pc = "listen"
  /\ ThreadStep(i, [ speech.threads[i] EXCEPT !.pc = "loop" ])

(* _listen_thread: recognizer.listen raised another exception: a thread
   that is not continuous leaves the loop. *)
ThreadListenFails(i) ==
  /\ speech.threads[i].pc = "listen"
  /\ ThreadStep(i, [ speech.threads[i] EXCEPT
                       !.pc = IF speech.threads[i].continuous THEN "loop" ELSE "finally" ])

(* _listen_thread: finally: self.is_listening = False *)
ThreadFinishes(i) ==
  /\ speech.threads[i].pc = "finally"
  /\ ListenStep([ speech EXCEPT !.threads[i].pc = "done", !.is_listening = FALSE ])

NextListen ==
  \/ \E continuous \in BOOLEAN : StartListening(continuous)
  \/ StopListening
  \/ StopListeningJoined
  \/ \E i \in DOMAIN speech.threads : ThreadOpensMicrophone(i)
  \/ \E i \in DOMAIN speech.threads : ThreadTestsFlag(i)
  \/ \E i \in DOMAIN speech.threads : ThreadHears(i)
  \/ \E i \in DOMAIN speech.threads : ThreadHearsNothing(i)
  \/ \E i \in DOMAIN speech.threads : ThreadListenFails(i)
  \/ \E i \in DOMAIN speech.threads : ThreadFinishes(i)

SpecListen == Init /\ [][NextListen]_vars

(***************************************************************************)
(* The claims.  A claim about a call speaks of the state right after it:   *)
(* op, arg and ret name the call, pre is the object before it, cm after.   *)
(***************************************************************************)
IsTurn == op = "process_user_input"

UserEntry(user_input) == [state |-> "user_input", message |-> user_input]

Reply(message, state) == [message |-> Some(message), state |-> state]

(* The trigger phrases of a category, and whether a text holds one. *)
TriggersOf(category) ==
  UNION { { objection_keywords[i][2][j] : j \in 1..Len(objection_keywords[i][2]) } :
          i \in { k \in 1..Len(objection_keywords) : objection_keywords[k][1] = category } }

HasTriggerOf(category, text) == \E k \in TriggersOf(category) : str_in(k, text)

DeclaredOrder ==
  << "no_need", "existing_loan", "interest_rate", "need_time", "cash_withdrawal",
     "no_emi", "recording_question", "credit_card", "reducing_balance",
     "processing_fee", "inappropriate_language", "unclear_voice" >>

(* The first category of the declared order with a trigger in the lowered,
   trimmed utterance, tabulated over the inputs. *)
FirstTriggeredCategory ==
  Tabulated([ u \in Inputs |->
    LET text == user_input_lower_of[u]
        hits == { i \in 1..Len(DeclaredOrder) : HasTriggerOf(DeclaredOrder[i], text) }
    IN  IF hits = {} THEN None
        ELSE Some(DeclaredOrder[CHOOSE i \in hits : \A j \in hits : i <= j]) ])

(* The categories with a trigger in the lowered, trimmed utterance,
   tabulated over the inputs. *)
TriggeredCategories ==
  Tabulated([ u \in Inputs |->
    { c \in DOMAIN objection_responses : HasTriggerOf(c, user_input_lower_of[u]) } ])

(* The categories declared before category c. *)
DeclaredBefore(c) ==
  { DeclaredOrder[i] : i \in { k \in 1..Len(DeclaredOrder) :
      \E j \in k + 1..Len(DeclaredOrder) : DeclaredOrder[j] = c } }

(* Whether the utterance holds a digit, tabulated over the inputs. *)
HasDigits == Tabulated([ u \in Inputs |-> re_search_digits(u) # None ])

FallbackMessage == "Thank you for your response. Let me continue with the process."

(* ScriptCatalog[state][0] rendered with the session's data. *)
RenderedPrompt(state, s) == format(script_messages[state][1], format_kwargs(s))[1]

(* C1: in every state, a turn whose utterance the objection detector
   classifies as category c sets the state to OBJECTION_HANDLING and returns
   c's canned response labelled 'objection_handling'; the state handler does
   not run: the only write to the state is the jump, no slot changes and
   the history gains the utterance and nothing else. *)
C1_ObjectionPreemptsDispatch ==
  (IsTurn /\ objection_type_of[arg] # None) =>
    /\ cm.current_state = OBJECTION_HANDLING
    /\ ret = Reply(objection_responses[objection_type_of[arg][1]], "objection_handling")
    /\ assigned = << OBJECTION_HANDLING >>
    /\ cm.customer_data = pre.customer_data
    /\ cm.conversation_history = Append(pre.conversation_history, UserEntry(arg))

(* C1 witness: "I don't need this" sent in BENEFITS_EXPLANATION. *)
C1_Witness ==
  /\ IsTurn
  /\ pre.current_state = BENEFITS_EXPLANATION
  /\ arg = "I don't need this"
  /\ objection_type_of[arg] = Some("no_need")
  /\ cm.current_state = OBJECTION_HANDLING

(* C2: once the state is ENDED, a processUtterance call is a no-op: the
   state stays ENDED and slots and history are unchanged. *)
C2_TurnAfterEndedIsNoOp ==
  (IsTurn /\ pre.current_state = ENDED) => cm = pre

(* C3: after startSession, one nextPrompt and then N processUtterance calls
   the history holds exactly 2N+1 entries. *)
C3_HistoryHoldsTwoEntriesPerTurn ==
  ( /\ Len(calls) >= 2
    /\ calls[1] = "start_call"
    /\ calls[2] = "get_next_message"
    /\ \A i \in 3..Len(calls) : calls[i] = "process_user_input" )
  => Len(cm.conversation_history) = 2 * (Len(calls) - 2) + 1

(* C4: a turn changes the state at most once, and a change is either the
   jump to OBJECTION_HANDLING of a detected objection or the move from the
   state s held at the start of the turn to TransitionTable[s][0]. *)
C4_OnlyTableOrObjectionMoves ==
  IsTurn =>
    /\ Len(assigned) <= 1
    /\ assigned = <<>> => cm.current_state = pre.current_state
    /\ assigned # <<>> =>
         /\ cm.current_state = assigned[1]
         /\ \/ /\ objection_type_of[arg] # None
               /\ assigned[1] = OBJECTION_HANDLING
            \/ /\ objection_type_of[arg] = None
               /\ pre.current_state \in DOMAIN state_transitions
               /\ assigned[1] = state_transitions[pre.current_state][1]

(* C4 witness: the default move out of BENEFITS_EXPLANATION, whose table
   entry lists two candidates. *)
C4_Witness ==
  /\ IsTurn
  /\ pre.current_state = BENEFITS_EXPLANATION
  /\ assigned = << PERSONAL_DETAILS >>
  /\ cm.current_state = PERSONAL_DETAILS

(* C5: a step that sets the state to ENDED is end_call, or a turn that began
   in CALL_CLOSING and took its default transition. *)
C5_EndedOnlyByEndCallOrClosing ==
  ( \/ cm.current_state = ENDED /\ pre.current_state # ENDED
    \/ \E i \in 1..Len(assigned) : assigned[i] = ENDED )
  => \/ op = "end_call"
     \/ /\ IsTurn
        /\ pre.current_state = CALL_CLOSING
        /\ objection_type_of[arg] = None
        /\ assigned = << ENDED >>

(* C5 witness: a turn out of CALL_CLOSING ends the session. *)
C5_Witness ==
  /\ IsTurn
  /\ pre.current_state = CALL_CLOSING
  /\ cm.current_state = ENDED

DefaultAdvancingStates ==
  { GREETING, SCRIPT_INTRODUCTION, RECORDING_NOTICE, PERSONAL_DETAILS,
    ELIGIBILITY_CHECK, BUREAU_CONSENT, DOCUMENT_REQUIREMENTS, CALL_CLOSING }

(* C6 as stated: in each of the eight states every non-empty utterance
   leaves the session in TransitionTable[S][0]. *)
C6_AnyNonEmptyUtteranceAdvances ==
  (IsTurn /\ pre.current_state \in DefaultAdvancingStates /\ arg # "") =>
    cm.current_state = state_transitions[pre.current_state][1]

(* C6 as amended: in each of the eight states every non-empty utterance in
   which the objection detector finds no trigger leaves the session in
   TransitionTable[S][0]. *)
C6_UtteranceWithoutObjectionAdvances ==
  ( /\ IsTurn
    /\ pre.current_state \in DefaultAdvancingStates
    /\ arg # ""
    /\ objection_type_of[arg] = None )
  => cm.current_state = state_transitions[pre.current_state][1]

(* C6 witness: "hello" in PERSONAL_DETAILS. *)
C6_Witness ==
  /\ IsTurn
  /\ pre.current_state = PERSONAL_DETAILS
  /\ arg = "hello"
  /\ cm.current_state = ELIGIBILITY_CHECK

(* C7: in SALARY_COLLECTION an utterance with both digits and an objection
   trigger yields OBJECTION_HANDLING and the matching canned response, and
   the salary slot is as it was before the turn. *)
C7_ObjectionPreemptsSalary ==
  ( /\ IsTurn
    /\ pre.current_state = SALARY_COLLECTION
    /\ HasDigits[arg]
    /\ TriggeredCategories[arg] # {} )
  => /\ cm.current_state = OBJECTION_HANDLING
     /\ FirstTriggeredCategory[arg] # None
     /\ ret = Reply(objection_responses[FirstTriggeredCategory[arg][1]],
                    "objection_handling")
     /\ cm.customer_data = pre.customer_data

(* C7 witness: "50,000 but not interested" in SALARY_COLLECTION. *)
C7_Witness ==
  /\ IsTurn
  /\ pre.current_state = SALARY_COLLECTION
  /\ arg = "50,000 but not interested"
  /\ HasDigits[arg]
  /\ TriggeredCategories[arg] = {"no_need"}
  /\ cm.current_state = OBJECTION_HANDLING
  /\ "salary" \notin DOMAIN cm.customer_data

(* C8 as stated: an utterance with an inappropriate-language trigger yields
   the inappropriate_language response and OBJECTION_HANDLING, whatever
   else it contains. *)
C8_InappropriateAlwaysWins ==
  (IsTurn /\ "inappropriate_language" \in TriggeredCategories[arg]) =>
    /\ cm.current_state = OBJECTION_HANDLING
    /\ ret = Reply(objection_responses["inappropriate_language"], "objection_handling")

(* C8 as amended: an utterance with an inappropriate-language trigger and no
   trigger of a category declared before inappropriate_language yields the
   inappropriate_language response and OBJECTION_HANDLING, in any state. *)
C8_InappropriateWinsUnlessEarlierCategory ==
  ( /\ IsTurn
    /\ "inappropriate_language" \in TriggeredCategories[arg]
    /\ TriggeredCategories[arg] \cap DeclaredBefore("inappropriate_language") = {} )
  => /\ cm.current_state = OBJECTION_HANDLING
     /\ ret = Reply(objection_responses["inappropriate_language"], "objection_handling")

(* C8 witness: "DAMN" sent in CALL_CLOSING. *)
C8_Witness ==
  /\ IsTurn
  /\ pre.current_state = CALL_CLOSING
  /\ arg = "DAMN"
  /\ ret.state = "objection_handling"

(* C9: the detector returns the first category of the declared order that
   has a trigger phrase occurring in the lowered, trimmed utterance, and
   none iff no category has one. *)
C9_DetectorReturnsFirstCategory ==
  IsTurn => objection_type = FirstTriggeredCategory[arg]

(* C9 witness: an utterance with a trigger of the last category followed by
   one of the first category is classified as the first category. *)
C9_Witness ==
  /\ IsTurn
  /\ arg = "can't hear don't need"
  /\ objection_type = Some("no_need")

(* C10 as stated: a turn dispatched in OBJECTION_HANDLING with no objection
   trigger returns the declared fallback message. *)
C10_ObjectionHandlingTurnReturnsFallback ==
  (IsTurn /\ pre.current_state = OBJECTION_HANDLING /\ objection_type_of[arg] = None) =>
    ret.message = Some(FallbackMessage)

(* C10 as amended: such a turn first takes the default transition to
   BENEFITS_EXPLANATION and returns that state's ScriptCatalog prompt,
   rendered with the session data; the fallback message is returned only by
   a turn that leaves the session in a state with no ScriptCatalog entry. *)
C10_ObjectionHandlingTurnReturnsBenefitsPrompt ==
  /\ (IsTurn /\ pre.current_state = OBJECTION_HANDLING /\ objection_type_of[arg] = None) =>
       /\ cm.current_state = BENEFITS_EXPLANATION
       /\ ret = Reply(RenderedPrompt(BENEFITS_EXPLANATION, cm), "benefits_explanation")
       /\ ret.message # Some(FallbackMessage)
  /\ (IsTurn /\ ret.message = Some(FallbackMessage)) =>
       cm.current_state \notin DOMAIN script_messages

(* C10 witness: a turn without objection sent in OBJECTION_HANDLING. *)
C10_Witness ==
  /\ IsTurn
  /\ pre.current_state = OBJECTION_HANDLING
  /\ objection_type_of[arg] = None
  /\ ret.state = "benefits_explanation"

(* The state an objection interrupted, where the history shows it: the
   history ends with the prompt of a state (the entry get_next_message wrote
   on entering it) followed by the utterance that raised the objection. *)
ShowsInterrupted(h, state) ==
  /\ Len(h) >= 2
  /\ h[Len(h)].state = "user_input"
  /\ objection_type_of[h[Len(h)].message] # None
  /\ h[Len(h) - 1].state = state

(* C11: a turn that begins in OBJECTION_HANDLING with no objection trigger
   in its utterance moves the session to BENEFITS_EXPLANATION, the first of
   the six candidates of the table, by one assignment; where the objection
   interrupted another state than BENEFITS_EXPLANATION the session is not
   back in that state after the turn. *)
C11_ObjectionHandlingMovesToBenefits ==
  (IsTurn /\ pre.current_state = OBJECTION_HANDLING /\ objection_type_of[arg] = None) =>
    /\ state_transitions[OBJECTION_HANDLING][1] = BENEFITS_EXPLANATION
    /\ Len(state_transitions[OBJECTION_HANDLING]) = 6
    /\ assigned = << BENEFITS_EXPLANATION >>
    /\ cm.current_state = BENEFITS_EXPLANATION
    /\ \A st \in CallState \ {BENEFITS_EXPLANATION} :
         ShowsInterrupted(pre.conversation_history, st) => cm.current_state # st

(* C11 witness: the objection interrupted PERSONAL_DETAILS, itself a
   candidate of the table, and the next turn leaves the session in
   BENEFITS_EXPLANATION. *)
C11_Witness ==
  /\ IsTurn
  /\ pre.current_state = OBJECTION_HANDLING
  /\ objection_type_of[arg] = None
  /\ ShowsInterrupted(pre.conversation_history, PERSONAL_DETAILS)
  /\ cm.current_state = BENEFITS_EXPLANATION

(* C12: the state label a turn returns is the session's current state when
   the turn returns. *)
C12_ReturnedLabelIsCurrentState ==
  IsTurn => ret.state = cm.current_state

(* C13: when a turn and end_call have run at once on a session and both
   have finished, the state is ENDED, and it is ENDED after every later
   turn. *)
C13_EndedOnceBothFinished ==
  RaceOver => cm.current_state = ENDED

(* The states whose turn holds the state unless the utterance passes the
   handler's test, and the state a turn cannot leave. *)
HoldingStates == { EMPLOYMENT_STATUS, SALARY_COLLECTION, BENEFITS_EXPLANATION, ENDED }

(* The messages that are empty once stripped. *)
BlankMessages == { "", " " }

(* C14 as stated: a turn with the empty utterance leaves the state, the slot
   map and the history as they were. *)
C14_EmptyUtteranceIsNoOp ==
  (IsTurn /\ arg = "") =>
    /\ cm.current_state = pre.current_state
    /\ cm.customer_data = pre.customer_data
    /\ cm.conversation_history = pre.conversation_history

(* C14 as amended: the empty utterance is dropped by the host, not by the
   engine.  handle_user_message strips the message and, when nothing is
   left, returns without calling the engine: state, slot map and history
   are unchanged.  processUtterance called with the empty text leaves the
   slot map unchanged, appends the empty utterance to the history, and
   treats it as any utterance without a trigger: the state advances by the
   default transition, except in EMPLOYMENT_STATUS, SALARY_COLLECTION and
   BENEFITS_EXPLANATION, where it holds, and in ENDED, which has no
   transition. *)
C14_EmptyUtteranceDroppedByHostOnly ==
  /\ (op = "handle_user_message" /\ arg \in BlankMessages) =>
       /\ cm = pre
       /\ ret = None
  /\ (IsTurn /\ arg = "") =>
       /\ cm.customer_data = pre.customer_data
       /\ Len(cm.conversation_history) > Len(pre.conversation_history)
       /\ cm.conversation_history[Len(pre.conversation_history) + 1] = UserEntry("")
       /\ cm.current_state =
            IF pre.current_state \in HoldingStates THEN pre.current_state
            ELSE state_transitions[pre.current_state][1]

(* C14 witness: the engine is handed the empty utterance in
   SALARY_COLLECTION; the state holds and the history has grown. *)
C14_Witness ==
  /\ IsTurn
  /\ arg = ""
  /\ pre.current_state = SALARY_COLLECTION
  /\ cm.current_state = SALARY_COLLECTION
  /\ Len(cm.conversation_history) = Len(pre.conversation_history) + 1

(* C15: in GREETING, SCRIPT_INTRODUCTION and RECORDING_NOTICE a turn with
   the empty utterance moves the state to SCRIPT_INTRODUCTION,
   RECORDING_NOTICE and EMPLOYMENT_STATUS respectively, these being the
   first candidates of the table, and leaves the slot map unchanged. *)
C15_EmptyUtteranceAdvancesOpeningStates ==
  /\ (IsTurn /\ arg = "" /\ pre.current_state = GREETING) =>
       cm.current_state = SCRIPT_INTRODUCTION
  /\ (IsTurn /\ arg = "" /\ pre.current_state = SCRIPT_INTRODUCTION) =>
       cm.current_state = RECORDING_NOTICE
  /\ (IsTurn /\ arg = "" /\ pre.current_state = RECORDING_NOTICE) =>
       cm.current_state = EMPLOYMENT_STATUS
  /\ ( /\ IsTurn
       /\ arg = ""
       /\ pre.current_state \in {GREETING, SCRIPT_INTRODUCTION, RECORDING_NOTICE} )
     => /\ cm.current_state = state_transitions[pre.current_state][1]
        /\ assigned = << cm.current_state >>
        /\ cm.customer_data = pre.customer_data

(* C15 witness: the empty utterance in RECORDING_NOTICE. *)
C15_Witness ==
  /\ IsTurn
  /\ arg = ""
  /\ pre.current_state = RECORDING_NOTICE
  /\ cm.current_state = EMPLOYMENT_STATUS

(* Sequence p is a prefix of sequence h. *)
IsPrefix(p, h) == Len(p) <= Len(h) /\ SubSeq(h, 1, Len(p)) = p

(* C16: every turn, whatever the state and the utterance, leaves the
   utterance as given (not lowered, not trimmed) in the history as a new
   entry right after the entries that were there before the call; whatever
   else the turn appends comes after it. *)
C16_UtteranceAppendedFirst ==
  IsTurn =>
    /\ IsPrefix(pre.conversation_history, cm.conversation_history)
    /\ Len(cm.conversation_history) > Len(pre.conversation_history)
    /\ cm.conversation_history[Len(pre.conversation_history) + 1] = UserEntry(arg)

(* C16 witness: an objection in upper case, sent when the history already
   holds entries: the entry is the utterance as given. *)
C16_Witness ==
  /\ IsTurn
  /\ arg = "DAMN"
  /\ objection_type_of[arg] # None
  /\ Len(pre.conversation_history) >= 2
  /\ cm.conversation_history = Append(pre.conversation_history, UserEntry("DAMN"))

(* C17: get_next_message, process_user_input and end_call leave the entries
   recorded before the call as they were: the history before the call is a
   prefix of the history after it. *)
C17_HistoryIsAppendOnly ==
  op \in {"get_next_message", "process_user_input", "end_call"} =>
    IsPrefix(pre.conversation_history, cm.conversation_history)

(* C17 witness: end_call on a session with recorded entries. *)
C17_Witness ==
  /\ op = "end_call"
  /\ Len(pre.conversation_history) >= 3
  /\ Len(cm.conversation_history) = Len(pre.conversation_history) + 1
  /\ IsPrefix(pre.conversation_history, cm.conversation_history)

(* C18: get_next_message leaves the current state and the slot map as they
   were, and in a state with a ScriptCatalog entry it returns the first
   template of the state with the session's data filled in: the names, and
   the stored salary or, without one, 100000. *)
C18_NextPromptRendersFirstTemplate ==
  op = "get_next_message" =>
    /\ cm.current_state = pre.current_state
    /\ cm.customer_data = pre.customer_data
    /\ pre.current_state \in DOMAIN script_messages =>
         /\ ret = Some(RenderedPrompt(pre.current_state, pre))
         /\ pre.current_state = GREETING =>
              ret = Some("Greetings!! " \o pre.customer_name \o " Main " \o pre.agent_name
                           \o " Baat kar raha hun on Behalf of Bajaj Finance Limited.")
         /\ pre.current_state = BENEFITS_EXPLANATION =>
              str_in(IF pre.customer_data = EmptyDict
                     THEN "Monthly Net Salary 100000 Rupaye"
                     ELSE "Monthly Net Salary 55000 Rupaye", ret[1])

(* C18 witness: the prompt of BENEFITS_EXPLANATION with the salary 55000
   stored. *)
C18_Witness ==
  /\ op = "get_next_message"
  /\ pre.current_state = BENEFITS_EXPLANATION
  /\ "salary" \in DOMAIN pre.customer_data
  /\ pre.customer_data["salary"] = 55000
  /\ ret # None

(* get_next_message on a session put in each state without a ScriptCatalog
   entry: nothing is returned and the session is as it was. *)
AbsentInStatesWithoutEntry ==
  \A state \in CallState \ DOMAIN script_messages :
    LET s == [ start_call(NewConversationManager, "Asha", "Rahul", "en-IN").s
                 EXCEPT !.current_state = state ]
    IN  get_next_message(s) = Frame(s, None, <<>>)

(* C19: the states without a ScriptCatalog entry are OBJECTION_HANDLING,
   ENDED and IDENTITY_CONFIRMATION; in such a state get_next_message returns
   None and leaves state, slots and history unchanged. *)
C19_NextPromptAbsentWithoutEntry ==
  /\ CallState \ DOMAIN script_messages =
       {OBJECTION_HANDLING, ENDED, IDENTITY_CONFIRMATION}
  /\ AbsentInStatesWithoutEntry
  /\ (op = "get_next_message" /\ pre.current_state \notin DOMAIN script_messages) =>
       /\ ret = None
       /\ cm = pre

(* C19 witness: get_next_message called in OBJECTION_HANDLING. *)
C19_Witness ==
  /\ op = "get_next_message"
  /\ pre.current_state = OBJECTION_HANDLING
  /\ ret = None

(* A turn on a session put in each of the 14 states, with each utterance:
   the result carries a message. *)
AnswersInEveryState ==
  \A state \in CallState : \A u \in Utterances :
    LET s == [ start_call(NewConversationManager, "Asha", "Rahul", "en-IN").s
                 EXCEPT !.current_state = state ]
    IN  process_user_input(s, u).r.message # None

(* C20: no turn raises, and every turn returns a result whose message is
   present: in every state a session reaches, and (a fact of the tables and
   the code alone, evaluated once, in the initial state) on a session put in
   any of the 14 states.  Under SpecLongRun the turn that hands int() a
   digit run longer than int_max_str_digits ends with ValueError. *)
C20_TurnAlwaysReturnsMessage ==
  /\ op = "__init__" => AnswersInEveryState
  /\ IsTurn => /\ "raised" \notin DOMAIN ret
               /\ ret.message # None
               /\ Len(ret.message) = 1

(* Whether the lowered utterance holds one of the words. *)
Mentions(words, user_input) ==
  \E w \in words : str_in(w, user_input_lower_of[user_input])

EmploymentKeywords == { "job", "employed", "salary", "employee" }

EmploymentClarification ==
  "I understand. For this overdraft facility, we primarily work with salaried employees. Do you have any other questions?"

(* C21: a turn in EMPLOYMENT_STATUS whose utterance holds no objection
   trigger moves to SALARY_COLLECTION exactly when the lowered utterance
   holds one of job, employed, salary, employee; otherwise the state and the
   slots stay as they were and the one clarification text is returned. *)
C21_EmploymentKeywordAdvances ==
  (IsTurn /\ pre.current_state = EMPLOYMENT_STATUS /\ objection_type_of[arg] = None) =>
    IF Mentions(EmploymentKeywords, arg)
    THEN cm.current_state = SALARY_COLLECTION
    ELSE /\ cm.current_state = EMPLOYMENT_STATUS
         /\ cm.customer_data = pre.customer_data
         /\ ret = Reply(EmploymentClarification, "clarification")

(* C21 witness: a second failed reply in a row in EMPLOYMENT_STATUS is
   answered like the first. *)
C21_Witness ==
  /\ IsTurn
  /\ pre.current_state = EMPLOYMENT_STATUS
  /\ pre.conversation_history[Len(pre.conversation_history)] = UserEntry("hello")
  /\ arg = "Great"
  /\ cm.current_state = EMPLOYMENT_STATUS
  /\ ret = Reply(EmploymentClarification, "clarification")

(* The integer of the first maximal digit run of the utterance once its
   commas are taken out, written out for the utterances whose run int()
   converts. *)
FirstNumber ==
  [ u \in { ScriptedReply, "4,50,000", "rs.007 or 15,000" } |->
      CASE u = ScriptedReply      -> 55000
        [] u = "4,50,000"         -> 450000
        [] u = "rs.007 or 15,000" -> 7 ]

(* C22: a turn in SALARY_COLLECTION whose utterance holds a digit and no
   objection trigger returns, sets the salary slot to the integer of the
   first maximal digit run of the utterance without its commas, writes no
   other slot, and moves to BENEFITS_EXPLANATION. *)
C22_DigitsSetSalaryAndAdvance ==
  (IsTurn /\ pre.current_state = SALARY_COLLECTION /\ objection_type_of[arg] = None
     /\ HasDigits[arg]) =>
    /\ "raised" \notin DOMAIN ret
    /\ cm.current_state = BENEFITS_EXPLANATION
    /\ DOMAIN cm.customer_data = DOMAIN pre.customer_data \cup {"salary"}
    /\ \A k \in DOMAIN pre.customer_data \ {"salary"} :
         cm.customer_data[k] = pre.customer_data[k]
    /\ arg \in DOMAIN FirstNumber => cm.customer_data["salary"] = FirstNumber[arg]

SalaryClarification ==
  "Could you please tell me your net take-home salary amount? For example, if it's 50,000 rupees, please say 'fifty thousand'."

(* C23: a turn in SALARY_COLLECTION whose utterance holds no digit and no
   objection trigger leaves the state and the slots as they were and
   returns the one clarification text, however many times it is made. *)
C23_FailedSalaryTurnChangesNothing ==
  (IsTurn /\ pre.current_state = SALARY_COLLECTION /\ objection_type_of[arg] = None
     /\ ~HasDigits[arg]) =>
    /\ cm.current_state = SALARY_COLLECTION
    /\ cm.customer_data = pre.customer_data
    /\ ret = Reply(SalaryClarification, "salary_clarification")

(* C23 witness: "hello" sent a second time in a row in SALARY_COLLECTION. *)
C23_Witness ==
  /\ IsTurn
  /\ pre.current_state = SALARY_COLLECTION
  /\ Len(pre.conversation_history) >= 2
  /\ pre.conversation_history[Len(pre.conversation_history)] = UserEntry("hello")
  /\ arg = "hello"
  /\ cm.current_state = SALARY_COLLECTION
  /\ ret = Reply(SalaryClarification, "salary_clarification")

(* The decimal digits of FirstNumber, as they are written in a prompt. *)
FirstNumberDigits ==
  [ u \in DOMAIN FirstNumber |->
      CASE u = ScriptedReply      -> "55000"
        [] u = "4,50,000"         -> "450000"
        [] u = "rs.007 or 15,000" -> "7" ]

(* The turn took a value out of the utterance: it ran the salary handler on
   an utterance with a digit, and int() returned. *)
ExtractedSalary ==
  /\ IsTurn
  /\ pre.current_state = SALARY_COLLECTION
  /\ objection_type_of[arg] = None
  /\ HasDigits[arg]
  /\ "raised" \notin DOMAIN ret

(* C24: when a turn in SALARY_COLLECTION extracts the value v, the salary
   slot is v, the state is BENEFITS_EXPLANATION, and the message the same
   call returns is the BENEFITS_EXPLANATION prompt with the decimal digits
   of v where the salary placeholder stands. *)
C24_ExtractedSalaryIsShownBack ==
  ExtractedSalary =>
    /\ arg \in DOMAIN FirstNumber
    /\ cm.customer_data["salary"] = FirstNumber[arg]
    /\ cm.current_state = BENEFITS_EXPLANATION
    /\ ret.state = BENEFITS_EXPLANATION
    /\ ret.message =
         Some("Dhanyawad Sir Jaisa apne bataya ki aap ki Monthly Net Salary "
              \o FirstNumberDigits[arg]
              \o script_messages[BENEFITS_EXPLANATION][1][3][2])
    /\ str_in("Salary " \o FirstNumberDigits[arg] \o " Rupaye", ret.message[1])

(* C24 witness: "4,50,000" is read as 450000 and shown back as 450000. *)
C24_Witness ==
  /\ ExtractedSalary
  /\ arg = "4,50,000"
  /\ cm.customer_data["salary"] = 450000
  /\ str_in("Salary 450000 Rupaye", ret.message[1])

PositiveKeywords == { "good", "great", "nice", "interested", "yes" }

BenefitsClarification ==
  "Let me explain more about how this can help you. You can use this facility for any emergency or investment purpose without any EMI burden."

(* C25: a turn in BENEFITS_EXPLANATION moves to PERSONAL_DETAILS exactly
   when the lowered utterance holds one of good, great, nice, interested,
   yes and the detector finds no objection; with neither a positive word
   nor an objection the state stays and the clarification text is returned;
   an utterance holding "not interested" never moves to PERSONAL_DETAILS. *)
C25_BenefitsAdvanceOnPositiveWord ==
  (IsTurn /\ pre.current_state = BENEFITS_EXPLANATION) =>
    /\ cm.current_state = PERSONAL_DETAILS <=>
         (Mentions(PositiveKeywords, arg) /\ objection_type_of[arg] = None)
    /\ (~Mentions(PositiveKeywords, arg) /\ objection_type_of[arg] = None) =>
         /\ cm.current_state = BENEFITS_EXPLANATION
         /\ ret = Reply(BenefitsClarification, "benefits_clarification")
    /\ Mentions({"not interested"}, arg) => cm.current_state # PERSONAL_DETAILS

(* C25 witness: "not interested" in BENEFITS_EXPLANATION, a positive word
   inside an objection, is taken as the objection. *)
C25_Witness ==
  /\ IsTurn
  /\ pre.current_state = BENEFITS_EXPLANATION
  /\ arg = "not interested"
  /\ Mentions(PositiveKeywords, arg)
  /\ cm.current_state = OBJECTION_HANDLING

(* C26: a turn in PERSONAL_DETAILS whose utterance holds no objection
   trigger moves to ELIGIBILITY_CHECK, by one write to the state, whatever
   was said, and leaves every slot as it was. *)
C26_PersonalDetailsAdvancesWritingNothing ==
  (IsTurn /\ pre.current_state = PERSONAL_DETAILS /\ objection_type_of[arg] = None) =>
    /\ cm.current_state = ELIGIBILITY_CHECK
    /\ assigned = << ELIGIBILITY_CHECK >>
    /\ cm.customer_data = pre.customer_data

(* C26 witness: small talk in PERSONAL_DETAILS, with the salary collected
   before, moves on and the salary is still the only slot. *)
C26_Witness ==
  /\ IsTurn
  /\ pre.current_state = PERSONAL_DETAILS
  /\ arg = "hello"
  /\ cm.current_state = ELIGIBILITY_CHECK
  /\ DOMAIN cm.customer_data = {"salary"}
  /\ cm.customer_data["salary"] = 55000

(* C27: within a session (start_call begins a new one with no slots) the
   only step that changes the slot map is a turn that started in
   SALARY_COLLECTION, was not taken as an objection and found a digit: it
   writes salary and nothing else.  No turn in another state, no objection
   turn, no get_next_message and no end_call changes a slot. *)
C27_OnlySalaryTurnWritesSlots ==
  (op # "start_call" /\ cm.customer_data # pre.customer_data) =>
    /\ IsTurn
    /\ pre.current_state = SALARY_COLLECTION
    /\ objection_type_of[arg] = None
    /\ HasDigits[arg]
    /\ DOMAIN cm.customer_data = DOMAIN pre.customer_data \cup {"salary"}
    /\ \A k \in DOMAIN pre.customer_data \ {"salary"} :
         cm.customer_data[k] = pre.customer_data[k]

(* C27 witness: the salary turn writes the slot, into a slot map that no
   earlier step of the session had written. *)
C27_Witness ==
  /\ IsTurn
  /\ pre.current_state = SALARY_COLLECTION
  /\ Len(calls) >= 6
  /\ pre.customer_data = EmptyDict
  /\ DOMAIN cm.customer_data = {"salary"}

(* The states one engine operation leaves a session in that it found in
   state: a turn with any utterance (the default transitions and the
   objection jump), get_next_message, end_call and start_call. *)
StepStates(state) ==
  LET s == [ start_call(NewConversationManager, "Asha", "Rahul", "en-IN").s
               EXCEPT !.current_state = state ]
  IN  { process_user_input(s, u).s.current_state : u \in Utterances }
      \cup { end_call(s, o).s.current_state : o \in Outcomes }
      \cup { get_next_message(s).s.current_state }
      \cup { start_call(s, "Asha", "Rahul", "en-IN").s.current_state }

RECURSIVE ReachableFrom(_)
(* The states some sequence of engine operations leads to from the states
   of the set. *)
ReachableFrom(states) ==
  LET further == states \cup UNION { StepStates(state) : state \in states }
  IN  IF further = states THEN states ELSE ReachableFrom(further)

(* C28: the tables are well-formed: each of the 14 declared states is
   reached from GREETING by some sequence of engine operations, every state
   the transition table names (as a key or as a candidate) is declared, and
   every key of the script catalog is declared.  A fact of the tables and
   the code alone, evaluated once, in the initial state. *)
C28_StaticConfigurationWellFormed ==
  op = "__init__" =>
    /\ Cardinality(CallState) = 14
    /\ CallState \subseteq ReachableFrom({GREETING})
    /\ DOMAIN state_transitions \subseteq CallState
    /\ \A state \in DOMAIN state_transitions :
         \A i \in 1..Len(state_transitions[state]) :
           state_transitions[state][i] \in CallState
    /\ DOMAIN script_messages \subseteq CallState

(* C29: start_call with names c and a leaves the session, new or used, in
   GREETING with no slot and no history, under the names c and a; and the
   get_next_message that follows returns the GREETING template with the
   session's names in the places of customer_name and agent_name. *)
C29_StartCallResetsAndGreets ==
  /\ op = "start_call" =>
       /\ cm.current_state = GREETING
       /\ cm.customer_data = EmptyDict
       /\ cm.conversation_history = <<>>
       /\ cm.customer_name = arg[1]
       /\ cm.agent_name = arg[2]
  /\ (op = "get_next_message" /\ calls = << "start_call", "get_next_message" >>) =>
       /\ cm.customer_name = pre.customer_name
       /\ cm.agent_name = pre.agent_name
       /\ ret = Some("Greetings!! " \o cm.customer_name \o " Main " \o cm.agent_name
                      \o " Baat kar raha hun on Behalf of Bajaj Finance Limited.")

(* C29 witness: start_call for another customer on a session that has a
   history and a salary. *)
C29_Witness ==
  /\ op = "start_call"
  /\ pre.conversation_history # <<>>
  /\ "salary" \in DOMAIN pre.customer_data
  /\ pre.current_state # GREETING
  /\ arg[1] = "Yogesh Kumar"
  /\ cm.customer_data = EmptyDict

(* Slot maps: none set, salary set (to zero, to a collected value), and
   salary with the two slots no handler fills. *)
SlotMaps ==
  { EmptyDict,
    [k \in {"salary"} |-> 0],
    [k \in {"salary"} |-> 55000],
    [k \in {"salary", "company", "designation"} |->
       IF k = "salary" THEN 7 ELSE "Acme"] }

ShownSalary(slots) ==
  IF "salary" \notin DOMAIN slots THEN "100000"
  ELSE CASE slots["salary"] = 0     -> "0"
         [] slots["salary"] = 7     -> "7"
         [] slots["salary"] = 55000 -> "55000"

(* The text is the state's first template with every replacement field
   filled: no field is left as written, and in the BENEFITS_EXPLANATION
   prompt the salary reads as the slot, or 100000 without one. *)
RenderedWith(text, state, slots) ==
  /\ ~str_in("{", text)
  /\ state = BENEFITS_EXPLANATION =>
       str_in("Monthly Net Salary " \o ShownSalary(slots) \o " Rupaye", text)

(* get_next_message on a session put in each state of the catalog, with
   each slot map: a message comes back, rendered. *)
RendersInEveryState ==
  \A state \in DOMAIN script_messages : \A slots \in SlotMaps :
    LET s == [ start_call(NewConversationManager, "Asha", "Rahul", "en-IN").s
                 EXCEPT !.current_state = state, !.customer_data = slots ]
        g == get_next_message(s)
    IN  g.r # None /\ RenderedWith(g.r[1], state, slots)

(* C30: rendering does not fail: every prompt a call returns for a state of
   the catalog is the template with its fields filled, the salary read from
   the slot or, without one, as 100000; the template as written is never
   what comes back, no field of the catalog being without a value or a
   default.  The first conjunct is a fact of the tables and the code alone,
   evaluated once, in the initial state. *)
C30_RenderingFillsEveryField ==
  /\ op = "__init__" => RendersInEveryState
  /\ (op = "get_next_message" /\ cm.current_state \in DOMAIN script_messages) =>
       ret # None /\ RenderedWith(ret[1], cm.current_state, cm.customer_data)
  /\ (IsTurn /\ ret.state \in DOMAIN script_messages /\ ret.state # OBJECTION_HANDLING) =>
       ret.message # None /\ RenderedWith(ret.message[1], ret.state, cm.customer_data)

(* C30 witness: the BENEFITS_EXPLANATION prompt of a session that skipped
   the salary question (an objection, then its answer) shows 100000. *)
C30_Witness ==
  /\ IsTurn
  /\ pre.current_state = OBJECTION_HANDLING
  /\ cm.current_state = BENEFITS_EXPLANATION
  /\ "salary" \notin DOMAIN cm.customer_data
  /\ str_in("Monthly Net Salary 100000 Rupaye", ret.message[1])

TerminalEntry(outcome) ==
  [state |-> "call_ended", message |-> "Call ended with outcome: " \o outcome]

(* The session s after end_call is s ended, with one terminal entry after
   its history and nothing else different. *)
EndedFrom(s, after, outcome) ==
  /\ after.current_state = ENDED
  /\ after.conversation_history = Append(s.conversation_history, TerminalEntry(outcome))
  /\ after.customer_data = s.customer_data
  /\ after.customer_name = s.customer_name
  /\ after.agent_name = s.agent_name

(* end_call on a session put in each of the 14 states. *)
EndsFromEveryState ==
  \A state \in CallState : \A o \in Outcomes :
    LET s == [ start_call(NewConversationManager, "Asha", "Rahul", "en-IN").s
                 EXCEPT !.current_state = state,
                        !.customer_data = [k \in {"salary"} |-> 55000] ]
    IN  EndedFrom(s, end_call(s, o).s, o)

(* C31: end_call, in whatever state, sets the state to ENDED, appends one
   terminal entry to the history and leaves the slots and every earlier
   entry as they were: on every end_call of a session, and (evaluated once,
   in the initial state) on a session put in any of the 14 states. *)
C31_EndCallEndsAndAppendsOneEntry ==
  /\ op = "__init__" => EndsFromEveryState
  /\ op = "end_call" => EndedFrom(pre, cm, arg)

(* C31 witness: end_call in the middle of the script, the salary collected. *)
C31_Witness ==
  /\ op = "end_call"
  /\ pre.current_state = PERSONAL_DETAILS
  /\ pre.customer_data = [k \in {"salary"} |-> 55000]
  /\ cm.current_state = ENDED
  /\ Len(cm.conversation_history) = Len(pre.conversation_history) + 1

(* The states of the script in the order of the happy path, ENDED last. *)
HappyOrder ==
  << GREETING, SCRIPT_INTRODUCTION, RECORDING_NOTICE, EMPLOYMENT_STATUS,
     SALARY_COLLECTION, BENEFITS_EXPLANATION, PERSONAL_DETAILS, ELIGIBILITY_CHECK,
     BUREAU_CONSENT, DOCUMENT_REQUIREMENTS, CALL_CLOSING, ENDED >>

IsUserEntry(entry) == entry.state = "user_input"

(* The utterances of the session so far, in the order they were said. *)
UtterancesSaid == SelectSeq(cm.conversation_history, IsUserEntry)

(* The k-th utterance of a session passes: it holds no objection trigger,
   and what the k-th state of the script asks for: an employment keyword in
   EMPLOYMENT_STATUS, a digit in SALARY_COLLECTION, a positive keyword in
   BENEFITS_EXPLANATION. *)
Passes(k, user_input) ==
  /\ objection_type_of[user_input] = None
  /\ HappyOrder[k] = EMPLOYMENT_STATUS => Mentions(EmploymentKeywords, user_input)
  /\ HappyOrder[k] = SALARY_COLLECTION => HasDigits[user_input]
  /\ HappyOrder[k] = BENEFITS_EXPLANATION => Mentions(PositiveKeywords, user_input)

(* The session is start_call followed by turns alone, at most 11, each
   utterance passing. *)
OnHappyPath ==
  /\ calls[1] = "start_call"
  /\ Len(calls) <= 12
  /\ \A i \in 2..Len(calls) : calls[i] = "process_user_input"
  /\ Len(UtterancesSaid) = Len(calls) - 1
  /\ \A k \in 1..Len(UtterancesSaid) : Passes(k, UtterancesSaid[k].message)

(* C32: after start_call and n turns, n <= 11, whose utterances all pass,
   the session is in the state n steps down the script: each call returned,
   the states were visited in the script's order, and after the 11th turn
   the session is ENDED. *)
C32_HappyPathReachesEndedIn11Turns ==
  OnHappyPath =>
    /\ IsTurn => "raised" \notin DOMAIN ret
    /\ cm.current_state = HappyOrder[Len(calls)]

(* The five opening states in the order of the script; every other state
   comes after them all. *)
OpeningStates ==
  << GREETING, SCRIPT_INTRODUCTION, RECORDING_NOTICE, EMPLOYMENT_STATUS,
     SALARY_COLLECTION >>

Place(state) ==
  IF \E i \in 1..Len(OpeningStates) : OpeningStates[i] = state
  THEN CHOOSE i \in 1..Len(OpeningStates) : OpeningStates[i] = state
  ELSE Len(OpeningStates) + 1

(* C33: between two start_calls no turn, get_next_message or end_call moves
   the session to an earlier place of the script than it was at: a state
   among GREETING, SCRIPT_INTRODUCTION, RECORDING_NOTICE, EMPLOYMENT_STATUS,
   SALARY_COLLECTION that was left is not entered again.  So the step that
   writes the salary finds no salary written. *)
C33_OpeningStatesAreNotReentered ==
  (op \in {"process_user_input", "get_next_message", "end_call"}) =>
    /\ Place(cm.current_state) >= Place(pre.current_state)
    /\ cm.customer_data # pre.customer_data => "salary" \notin DOMAIN pre.customer_data

(* C33 witness: a turn after the session has ended, all opening states long
   left, leaves it ended. *)
C33_Witness ==
  /\ IsTurn
  /\ pre.current_state = ENDED
  /\ "salary" \in DOMAIN pre.customer_data
  /\ cm.current_state = ENDED

(* BENEFITS_EXPLANATION and the script states after it. *)
LaterScriptStates ==
  { BENEFITS_EXPLANATION, PERSONAL_DETAILS, ELIGIBILITY_CHECK, BUREAU_CONSENT,
    DOCUMENT_REQUIREMENTS, CALL_CLOSING }

(* An utterance of the session so far was taken as an objection. *)
ObjectionWasRaised ==
  \E k \in 1..Len(UtterancesSaid) : objection_type_of[UtterancesSaid[k].message] # None

StartsWith(text, start) ==
  Len(text) >= Len(start) /\ SubSeq(text, 1, Len(start)) = start

(* The BENEFITS_EXPLANATION prompts the session has been given that name
   the default salary. *)
DefaultSalaryPrompts ==
  { i \in 1..Len(cm.conversation_history) :
      /\ cm.conversation_history[i].state = BENEFITS_EXPLANATION
      /\ StartsWith(cm.conversation_history[i].message,
                    "Dhanyawad Sir Jaisa apne bataya ki aap ki Monthly Net Salary 100000 Rupaye") }

(* C34 as stated: in BENEFITS_EXPLANATION and in every later script state
   the salary slot is set, and no BENEFITS_EXPLANATION prompt names the
   default salary. *)
C34_LaterStatesHaveSalary ==
  cm.current_state \in LaterScriptStates =>
    /\ "salary" \in DOMAIN cm.customer_data
    /\ DefaultSalaryPrompts = {}

(* C34, amended: in BENEFITS_EXPLANATION and in every later script state
   the salary slot is set unless an objection took the session past
   SALARY_COLLECTION; only then does a BENEFITS_EXPLANATION prompt name the
   default salary. *)
C34_LaterStatesHaveSalaryUnlessObjection ==
  /\ cm.current_state \in LaterScriptStates =>
       ("salary" \in DOMAIN cm.customer_data \/ ObjectionWasRaised)
  /\ DefaultSalaryPrompts # {} =>
       ("salary" \notin DOMAIN cm.customer_data /\ ObjectionWasRaised)

(* C34 witness: an objection in GREETING, and the session goes on to
   PERSONAL_DETAILS with no salary, told of a salary of 100000. *)
C34_Witness ==
  /\ cm.current_state = PERSONAL_DETAILS
  /\ "salary" \notin DOMAIN cm.customer_data
  /\ ObjectionWasRaised
  /\ DefaultSalaryPrompts # {}

(* C35: a get_next_message that returns a message appends one entry to the
   history, the state's name with that message, and one that returns none
   appends nothing; neither changes anything else.  So of two calls in a
   row the second returns what the first returned, and the history ends
   with the same entry twice. *)
C35_NextPromptAppendsWhatItReturns ==
  op = "get_next_message" =>
    /\ cm.current_state = pre.current_state
    /\ cm.customer_data = pre.customer_data
    /\ cm.conversation_history =
         IF ret = None THEN pre.conversation_history
         ELSE Append(pre.conversation_history,
                     [state |-> pre.current_state, message |-> ret[1]])
    /\ (Len(calls) >= 2 /\ calls[Len(calls) - 1] = "get_next_message" /\ ret # None) =>
         /\ Len(pre.conversation_history) >= 1
         /\ pre.conversation_history[Len(pre.conversation_history)]
              = [state |-> pre.current_state, message |-> ret[1]]

(* C35 witness: get_next_message twice in a row in BENEFITS_EXPLANATION:
   the history ends with the prompt twice. *)
C35_Witness ==
  /\ op = "get_next_message"
  /\ Len(calls) >= 2
  /\ calls[Len(calls) - 1] = "get_next_message"
  /\ cm.current_state = BENEFITS_EXPLANATION
  /\ ret # None
  /\ Len(cm.conversation_history) = Len(pre.conversation_history) + 1
  /\ cm.conversation_history[Len(cm.conversation_history)]
       = cm.conversation_history[Len(cm.conversation_history) - 1]

(* The listen threads that are in the capture loop. *)
Capturing == { i \in DOMAIN speech.threads : speech.threads[i].pc \in {"loop", "listen"} }

(* C36: at most one listen thread is in the capture loop at any time;
   start_listening called while is_listening is true returns False and
   starts no thread; and a thread that stop_listening told to stop does not
   pass the loop test again, whatever start_listening is called later. *)
C36_AtMostOneListenThreadCaptures ==
  /\ Cardinality(Capturing) <= 1
  /\ (speech.call = "start_listening" /\ speech.found) => ~speech.returned
  /\ \A i \in DOMAIN speech.threads : ~speech.threads[i].resumed

(* C37: no transcript row is written for a call whose record already has
   status 'completed', whatever the interleaving of handle_user_message and
   end_call_internal; and a user_message that found its session out of
   active_calls writes no row and runs no engine turn. *)
C37_NoTranscriptAfterCompleted ==
  /\ \A k \in DOMAIN host.transcripts : ~host.transcripts[k].late
  /\ ~host.user_message.active =>
        host.user_message.rows = 0 /\ ~host.user_message.turned

(* C38: once the session's end_call or disconnect has been handled, every
   call record the session created has status 'completed'. *)
C38_EveryCallCompletedAfterEnd ==
  (host.finished \in {"end_call", "disconnect"} /\ host.end_call.pc = "idle") =>
    \A i \in DOMAIN host.calls : host.calls[i] = "completed"

====
